---- MODULE Spec2Model ----
(***************************************************************************)
(* Retirement withdrawal planner (Ontario_taxapp).                         *)
(*                                                                         *)
(* Three parts are modelled:                                               *)
(*   1. generateMockAdvice (services/mockApi.ts): the yearly projection    *)
(*      generator of the frontend, one step per element of yearsArray.     *)
(*   2. The tax calculators of the backend plan (calculator.py): RRIF      *)
(*      minimum withdrawal, OAS clawback, bracket tax.                     *)
(*   3. The simulation engine of the backend plan (simulate_strategy).     *)
(*                                                                         *)
(* Money is an integer number of dollars.  A product with a decimal rate   *)
(* is written Scale(x, num, den) = x * num / den; the inputs of the mock   *)
(* generator are chosen so that every such quotient is exact.              *)
(***************************************************************************)
EXTENDS Integers, Sequences, FiniteSets, TLC

\* ------------------------------------------------------------------ bounds

\* Largest life_expectancy_years / planning horizon explored.
MaxYears == 4

\* Most advice requests followed at the same time.
MaxInFlight == 2

\* ------------------------------------------------------------------ helpers

Max(a, b) == IF a >= b THEN a ELSE b

Min(a, b) == IF a <= b THEN a ELSE b

\* x * num / den, the quotient rounded toward minus infinity (computed from
\* the quotient and remainder of x so that the product stays small).
Scale(x, num, den) == ((x \div den) * num) + (((x % den) * num) \div den)

\* ------------------------------------------------- tax calculators
\* calculator.py of the backend plan: the functions are given by their
\* formulas in the plan and the design; rates are integers over a stated
\* denominator (per cent, or basis points for the factor table).

\* Age from which the factor table applies; below it the formula
\* balance / (90 - age) is used.
RRIF_FLOOR_AGE == 71

RRIF_FORMULA_BASE == 90

\* Minimum-withdrawal factors in basis points, ages 71 to 95 (95 and over
\* share the last entry).
RRIF_FACTORS ==
    [a \in 71 .. 95 |->
        CASE a = 71 -> 528  [] a = 72 -> 540  [] a = 73 -> 553  [] a = 74 -> 567
          [] a = 75 -> 582  [] a = 76 -> 598  [] a = 77 -> 617  [] a = 78 -> 636
          [] a = 79 -> 658  [] a = 80 -> 682  [] a = 81 -> 708  [] a = 82 -> 738
          [] a = 83 -> 771  [] a = 84 -> 808  [] a = 85 -> 851  [] a = 86 -> 899
          [] a = 87 -> 955  [] a = 88 -> 1021 [] a = 89 -> 1099 [] a = 90 -> 1192
          [] a = 91 -> 1306 [] a = 92 -> 1449 [] a = 93 -> 1634 [] a = 94 -> 1879
          [] OTHER -> 2000]

RRIF_TABLE_MAX_AGE == 95

\* The factor as a fraction <<numerator, denominator>>, with 71 included in
\* the formula range (age <= 71 in place of age < 71).
get_rrif_min_factor_inclusive(age) ==
    IF age <= RRIF_FLOOR_AGE
    THEN <<1, RRIF_FORMULA_BASE - age>>
    ELSE <<RRIF_FACTORS[Min(age, RRIF_TABLE_MAX_AGE)], 10000>>

\* The formula 1/(90 - age) used at every age, the table ignored.
get_rrif_min_factor_formulaOnly(age) == <<1, RRIF_FORMULA_BASE - age>>

\* minimumWithdrawalFactor(age) as a fraction <<numerator, denominator>>:
\* 1/(90 - age) below the floor age, else the table entry, the last entry
\* for any age beyond the table.
get_rrif_min_factor(age) ==
    IF age < RRIF_FLOOR_AGE
    THEN <<1, RRIF_FORMULA_BASE - age>>
    ELSE <<RRIF_FACTORS[Min(age, RRIF_TABLE_MAX_AGE)], 10000>>

\* balance / (90 - age) if age < 71, else balance * factor.
calculate_rrif_min_withdrawal(balance, age) ==
    LET f == get_rrif_min_factor(age)
    IN  Scale(balance, f[1], f[2])

\* The clawback without the cap at the benefit received.
calculate_oas_clawback_uncapped(net_income, oas_received, threshold, ratePct) ==
    Max(0, Scale(Max(0, net_income + oas_received - threshold), ratePct, 100))

\* benefitClawback: max(0, min(benefitReceived,
\*                  rate * max(0, netIncomeExcludingBenefit + benefitReceived - threshold))).
calculate_oas_clawback(net_income, oas_received, threshold, ratePct) ==
    Max(0, Min(oas_received,
               Scale(Max(0, net_income + oas_received - threshold), ratePct, 100)))

\* The part of `excess` that lies in bracket k of `brackets`, a sequence of
\* [threshold, rate] in ascending threshold order (rate in basis points).
BracketSlice(excess, brackets, k) ==
    LET lower == brackets[k].threshold
        upper == IF k < Len(brackets) THEN brackets[k + 1].threshold ELSE excess
    IN  Max(0, Min(excess, upper) - lower)

RECURSIVE BracketSum(_, _, _)
BracketSum(excess, brackets, k) ==
    IF k > Len(brackets) THEN 0
    ELSE Scale(BracketSlice(excess, brackets, k), brackets[k].rate, 10000)
           + BracketSum(excess, brackets, k + 1)

RECURSIVE TopBracket(_, _, _)
TopBracket(excess, brackets, k) ==
    IF k < Len(brackets) /\ brackets[k + 1].threshold <= excess
    THEN TopBracket(excess, brackets, k + 1)
    ELSE k

\* Bracket tax that taxes only the slice in the highest bracket reached.
bracketTax_topSliceOnly(taxableIncome, brackets, basicPersonalAmount) ==
    LET excess == Max(0, taxableIncome - basicPersonalAmount)
        k == TopBracket(excess, brackets, 1)
    IN  Scale(BracketSlice(excess, brackets, k), brackets[k].rate, 10000)

\* bracketTax: marginal rates on the income in excess of the basic personal
\* amount, bracket by bracket in ascending order, each bracket taxing only
\* its own slice.
bracketTax(taxableIncome, brackets, basicPersonalAmount) ==
    LET excess == Max(0, taxableIncome - basicPersonalAmount)
    IN  BracketSum(excess, brackets, 1)

\* Rule tables by jurisdiction layer (2025 federal and Ontario brackets).
FederalBrackets ==
    << [threshold |-> 0,      rate |-> 1500],
       [threshold |-> 57375,  rate |-> 2050],
       [threshold |-> 114750, rate |-> 2600],
       [threshold |-> 177882, rate |-> 2900],
       [threshold |-> 253414, rate |-> 3300] >>

OntarioBrackets ==
    << [threshold |-> 0,      rate |-> 505],
       [threshold |-> 52886,  rate |-> 915],
       [threshold |-> 105775, rate |-> 1116],
       [threshold |-> 150000, rate |-> 1216],
       [threshold |-> 220000, rate |-> 1316] >>

FEDERAL_BPA == 16129

ONTARIO_BPA == 12747

OAS_CLAWBACK_THRESHOLD == 90997

OAS_CLAWBACK_RATE_PCT == 15

\* totalTax: the sum of bracketTax over both layers; the age parameter is
\* reserved for age-based credits and is unused.
calculate_total_tax(taxableIncome, age) ==
    LET federal  == bracketTax(taxableIncome, FederalBrackets, FEDERAL_BPA)
        regional == bracketTax(taxableIncome, OntarioBrackets, ONTARIO_BPA)
    IN  [federal |-> federal, regional |-> regional, total |-> federal + regional]

\* ------------------------------------------------------------------ state

VARIABLES
    \* generateMockAdvice
    scenarioData,        \* the ScenarioInput fields the generator reads
    mpc,                 \* position of the generator
    currentYear,         \* new Date().getFullYear()
    strategy,            \* which yearsArray.map is running
    yearOffset,          \* the element of yearsArray being mapped
    minimumYearlyData,   \* result of the first map
    optimizedYearlyData, \* result of the second map
    mockResponse,        \* the value the promise resolves with
    thrown,              \* the error the promise rejects with
    previousResponse,    \* what an earlier call on the same scenario resolved with
    \* tax calculators
    cFn,                 \* the calculator under evaluation
    cArgs,               \* its arguments
    cOut,                \* its results, <<>> until it has been applied
    \* simulation engine (simulate_strategy)
    eScenario,           \* the Scenario of the run (immutable)
    ePolicy,             \* the withdrawal policy of the run
    ePc,                 \* Initializing, Year, Finalizing, Done or Failed
    eState,              \* HouseholdState: age, balance, year index
    eProjections,        \* the YearlyProjection records emitted so far
    eResult,             \* SummaryMetrics, set at Done
    ePolicyAnswer,       \* what the policy returned in the latest year step
    eError,              \* the error that ended the run
    \* App and services/api.ts
    apiVersion,          \* which of the two generateAdvice sources is in use
    apc,                 \* Idle, Requesting (HTTP call in flight) or Settled
    isLoading,           \* App state
    results,             \* App state: the AdviceResponse, or NoResults for null
    error,               \* App state: the message, or NoError for null
    httpOutcome,         \* how the HTTP call of the request ended
    advice,              \* the promise generateAdvice returned
    inFlight,            \* advice requests sent and not yet settled
    \* InputForm
    formData,            \* the texts of the form, each a sequence of characters
    errors,              \* FormErrors: field -> message, "" for no entry
    handedOn,            \* the scenario the latest submit passed to onSubmit
    lastEvent            \* the handler that ran last

mockVars == <<scenarioData, mpc, currentYear, strategy, yearOffset,
              minimumYearlyData, optimizedYearlyData, mockResponse, thrown,
              previousResponse>>

calcVars == <<cFn, cArgs, cOut>>

engineVars == <<eScenario, ePolicy, ePc, eState, eProjections, eResult,
                ePolicyAnswer, eError>>

appVars == <<apiVersion, apc, isLoading, results, error, httpOutcome, advice,
             inFlight>>

formVars == <<formData, errors, handedOn, lastEvent>>

uiVars == <<appVars, formVars>>

vars == <<mockVars, calcVars, engineVars, uiVars>>

\* The generator before any call, and the calculators before any call.
IdleMock ==
    /\ scenarioData = [age |-> 0, rrsp_balance |-> 0,
                       life_expectancy_years |-> 0, other_taxable_income |-> 0]
    /\ mpc = "Idle"
    /\ currentYear = 0
    /\ strategy = "minimum"
    /\ yearOffset = 0
    /\ minimumYearlyData = <<>>
    /\ optimizedYearlyData = <<>>
    /\ mockResponse = [success |-> FALSE]
    /\ thrown = "none"
    /\ previousResponse = [success |-> FALSE]

IdleCalc ==
    /\ cFn = "none"
    /\ cArgs = <<>>
    /\ cOut = <<>>

NoSummary == [computed |-> FALSE]

IdleEngine ==
    /\ eScenario = [age |-> 0]
    /\ ePolicy = "none"
    /\ ePc = "Idle"
    /\ eState = [age |-> 0, balance |-> 0, yearIndex |-> 0]
    /\ eProjections = <<>>
    /\ eResult = NoSummary
    /\ ePolicyAnswer = [finite |-> TRUE, amount |-> 0]
    /\ eError = "none"

\* null of the App's results and error state; messages are sequences of
\* text fragments, in the order the template literal joins them.
NoResults == [present |-> FALSE]

NoError == <<>>

NoOutcome == [kind |-> "none"]

PendingAdvice == [state |-> "pending"]

IdleApp ==
    /\ apiVersion = "none"
    /\ apc = "Idle"
    /\ isLoading = FALSE
    /\ results = NoResults
    /\ error = NoError
    /\ httpOutcome = NoOutcome
    /\ advice = PendingAdvice
    /\ inFlight = 0

\* The text fields of the form that are modelled; the remaining numeric
\* fields go through the same validateNumeric and safeParse calls and are
\* taken to hold valid texts.
FormFields ==
    {"age", "planning_horizon_years", "target_rrif_depletion_age", "province",
     "expect_return_pct", "inflation_rate_pct"}

\* The Select that is modelled, and the names of the TextFields of the two
\* optional sections (name="spouse_details.FIELD", name="non_registered_details.FIELD").
SelectFields == {"retirement_status"}

SpouseKeys == {"spouse_details.age", "spouse_details.rrsp_balance"}

NonRegKeys == {"non_registered_details.balance"}

ErrorKeys == FormFields \cup SelectFields \cup SpouseKeys \cup NonRegKeys

\* null of spouse_details and non_registered_details.
NoDetails == [present |-> FALSE]

initialSpouseState == [age |-> <<>>, rrsp_balance |-> <<>>]

initialNonRegState == [balance |-> <<"0">>]

\* initialFormData and the empty error map.
initialFormData ==
    [ age                       |-> <<>>,
      retirement_status         |-> "Retired",
      has_spouse                |-> FALSE,
      spouse_details            |-> NoDetails,
      has_non_registered        |-> FALSE,
      non_registered_details    |-> NoDetails,
      planning_horizon_years    |-> <<>>,
      expect_return_pct         |-> <<>>,
      inflation_rate_pct        |-> <<"2", ".", "0">>,
      target_rrif_depletion_age |-> <<>>,
      province                  |-> <<"O", "N">> ]

NoErrors == [f \in ErrorKeys |-> ""]

NoScenario == [handed |-> FALSE]

IdleForm ==
    /\ formData = initialFormData
    /\ errors = NoErrors
    /\ handedOn = NoScenario
    /\ lastEvent = "none"

IdleUi == IdleApp /\ IdleForm

\* ------------------------------------------------- generateMockAdvice

\* Inputs of the generator.  Balances are multiples of 600000 so that
\* rrsp_balance * 0.04, * 0.05 and * 0.08 divide exactly by every
\* (years - yearOffset) up to 6 and the tax products are whole dollars.
MockAges == {65, 70}

MockBalances == {0, 600000, 1200000}

MockHorizons == (-1) .. MaxYears

MockOtherIncome == {0, 50000}

WallClockYears == {2025, 2026}

NoResponse == [success |-> FALSE]

\* yearsArray one element short (Array.from({ length: years - 1 })).
yearsArrayLength_short(years) == Max(0, years - 1)

\* Array.from({ length: years }, (_, i) => i): ToLength maps a negative
\* length to 0, so the array is empty for years <= 0.
yearsArrayLength(years) == Max(0, years)

\* One element of minimumYearlyData.
minimumYearly(sd, cy, off) ==
    LET years == sd.life_expectancy_years
        minimumWithdrawal ==
            IF off = 0 THEN 0
            ELSE Scale(sd.rrsp_balance, 5, 100) \div (years - off)
        remainingRrif == Max(0, sd.rrsp_balance - (minimumWithdrawal * off))
    IN  [ year              |-> cy + off,
          age               |-> sd.age + off,
          start_rrif        |-> remainingRrif + minimumWithdrawal,
          withdrawal_amount |-> minimumWithdrawal,
          end_rrif          |-> remainingRrif,
          income            |-> minimumWithdrawal + sd.other_taxable_income,
          tax_paid          |-> Scale(minimumWithdrawal + sd.other_taxable_income, 20, 100),
          net_income        |-> Scale(minimumWithdrawal + sd.other_taxable_income, 80, 100),
          oas_clawback      |-> 0 ]

\* An optimized row that takes its closing balance from the minimum-only
\* rows computed so far (state shared between the two maps).
optimizedYearly_sharedState(sd, cy, off) ==
    LET years == sd.life_expectancy_years
        optimalWithdrawal ==
            IF off * 3 < years
            THEN Scale(sd.rrsp_balance, 8, 100) \div (years - off)
            ELSE Scale(sd.rrsp_balance, 4, 100) \div (years - off)
        remainingRrif ==
            IF minimumYearlyData = <<>> THEN sd.rrsp_balance
            ELSE minimumYearlyData[Len(minimumYearlyData)].end_rrif
    IN  [ year              |-> cy + off,
          age               |-> sd.age + off,
          start_rrif        |-> remainingRrif + optimalWithdrawal,
          withdrawal_amount |-> optimalWithdrawal,
          end_rrif          |-> remainingRrif,
          income            |-> optimalWithdrawal + sd.other_taxable_income,
          tax_paid          |-> Scale(optimalWithdrawal + sd.other_taxable_income, 18, 100),
          net_income        |-> Scale(optimalWithdrawal + sd.other_taxable_income, 82, 100),
          oas_clawback      |-> 0 ]

\* One element of optimizedYearlyData.
optimizedYearly(sd, cy, off) ==
    LET years == sd.life_expectancy_years
        optimalWithdrawal ==
            IF off * 3 < years                      \* yearOffset < years / 3
            THEN Scale(sd.rrsp_balance, 8, 100) \div (years - off)
            ELSE Scale(sd.rrsp_balance, 4, 100) \div (years - off)
        remainingRrif == Max(0, sd.rrsp_balance - (optimalWithdrawal * off))
    IN  [ year              |-> cy + off,
          age               |-> sd.age + off,
          start_rrif        |-> remainingRrif + optimalWithdrawal,
          withdrawal_amount |-> optimalWithdrawal,
          end_rrif          |-> remainingRrif,
          income            |-> optimalWithdrawal + sd.other_taxable_income,
          tax_paid          |-> Scale(optimalWithdrawal + sd.other_taxable_income, 18, 100),
          net_income        |-> Scale(optimalWithdrawal + sd.other_taxable_income, 82, 100),
          oas_clawback      |-> 0 ]

RECURSIVE SumTaxPaid(_)
SumTaxPaid(rows) ==
    IF rows = <<>> THEN 0 ELSE Head(rows).tax_paid + SumTaxPaid(Tail(rows))

\* The response with each terminal balance read from the first row.
buildMockResponse_firstRow(minRows, optRows) ==
    LET minFirst == minRows[1]
        optFirst == optRows[1]
    IN  [ success |-> TRUE,
          minimum_only_strategy |->
            [ yearly_data           |-> minRows,
              total_tax_paid        |-> SumTaxPaid(minRows),
              terminal_rrif_balance |-> minFirst.end_rrif,
              terminal_tax_estimate |-> Scale(minFirst.end_rrif, 30, 100) ],
          optimized_strategy |->
            [ yearly_data           |-> optRows,
              total_tax_paid        |-> SumTaxPaid(optRows),
              terminal_rrif_balance |-> optFirst.end_rrif,
              terminal_tax_estimate |-> Scale(optFirst.end_rrif, 25, 100) ],
          savings_summary |->
            [ total_tax_saved    |-> SumTaxPaid(minRows) - SumTaxPaid(optRows),
              terminal_tax_saved |-> Scale(minFirst.end_rrif, 30, 100)
                                       - Scale(optFirst.end_rrif, 25, 100) ] ]

\* The mockResponse object literal; evaluated only for non-empty arrays.
buildMockResponse(minRows, optRows) ==
    LET minLast == minRows[Len(minRows)]
        optLast == optRows[Len(optRows)]
    IN  [ success |-> TRUE,
          minimum_only_strategy |->
            [ yearly_data           |-> minRows,
              total_tax_paid        |-> SumTaxPaid(minRows),
              terminal_rrif_balance |-> minLast.end_rrif,
              terminal_tax_estimate |-> Scale(minLast.end_rrif, 30, 100) ],
          optimized_strategy |->
            [ yearly_data           |-> optRows,
              total_tax_paid        |-> SumTaxPaid(optRows),
              terminal_rrif_balance |-> optLast.end_rrif,
              terminal_tax_estimate |-> Scale(optLast.end_rrif, 25, 100) ],
          savings_summary |->
            [ total_tax_saved    |-> SumTaxPaid(minRows) - SumTaxPaid(optRows),
              terminal_tax_saved |-> Scale(minLast.end_rrif, 30, 100)
                                       - Scale(optLast.end_rrif, 25, 100) ] ]

InitMock ==
    /\ scenarioData \in [ age : MockAges,
                          rrsp_balance : MockBalances,
                          life_expectancy_years : MockHorizons,
                          other_taxable_income : MockOtherIncome ]
    /\ mpc = "Initializing"
    /\ currentYear = 0
    /\ strategy = "minimum"
    /\ yearOffset = 0
    /\ minimumYearlyData = <<>>
    /\ optimizedYearlyData = <<>>
    /\ mockResponse = NoResponse
    /\ thrown = "none"
    /\ previousResponse = NoResponse
    /\ IdleCalc
    /\ IdleEngine
    /\ IdleUi

\* The 1500 ms timer resolves; the inputs and the wall-clock year are read
\* and yearsArray is built.  An empty yearsArray makes both maps no-ops.
MockBegin ==
    /\ mpc = "Initializing"
    /\ \E cy \in WallClockYears : currentYear' = cy
    /\ mpc' = IF yearsArrayLength(scenarioData.life_expectancy_years) = 0
              THEN "Finalizing" ELSE "Year"
    /\ strategy' = "minimum"
    /\ yearOffset' = 0
    /\ UNCHANGED <<scenarioData, minimumYearlyData, optimizedYearlyData,
                   mockResponse, thrown, previousResponse>>
    /\ UNCHANGED <<calcVars, engineVars, uiVars>>

\* One callback of yearsArray.map for minimumYearlyData.
MinimumYearStep ==
    /\ mpc = "Year"
    /\ strategy = "minimum"
    /\ yearOffset < yearsArrayLength(scenarioData.life_expectancy_years)
    /\ minimumYearlyData' =
         Append(minimumYearlyData, minimumYearly(scenarioData, currentYear, yearOffset))
    /\ IF yearOffset + 1 = yearsArrayLength(scenarioData.life_expectancy_years)
       THEN strategy' = "optimized" /\ yearOffset' = 0
       ELSE strategy' = strategy /\ yearOffset' = yearOffset + 1
    /\ UNCHANGED <<scenarioData, mpc, currentYear, optimizedYearlyData,
                   mockResponse, thrown, previousResponse>>
    /\ UNCHANGED <<calcVars, engineVars, uiVars>>

\* One callback of yearsArray.map for optimizedYearlyData.
OptimizedYearStep ==
    /\ mpc = "Year"
    /\ strategy = "optimized"
    /\ yearOffset < yearsArrayLength(scenarioData.life_expectancy_years)
    /\ optimizedYearlyData' =
         Append(optimizedYearlyData, optimizedYearly(scenarioData, currentYear, yearOffset))
    /\ IF yearOffset + 1 = yearsArrayLength(scenarioData.life_expectancy_years)
       THEN mpc' = "Finalizing" /\ yearOffset' = yearOffset
       ELSE mpc' = mpc /\ yearOffset' = yearOffset + 1
    /\ UNCHANGED <<scenarioData, currentYear, strategy, minimumYearlyData,
                   mockResponse, thrown, previousResponse>>
    /\ UNCHANGED <<calcVars, engineVars, uiVars>>

\* The mockResponse literal is evaluated.  With empty arrays
\* minimumYearlyData[minimumYearlyData.length - 1] is undefined and reading
\* .end_rrif of it throws a TypeError, which rejects the promise.
MockFinalize ==
    /\ mpc = "Finalizing"
    /\ IF Len(minimumYearlyData) = 0
       THEN /\ mpc' = "Failed"
            /\ thrown' = "TypeError"
            /\ mockResponse' = mockResponse
       ELSE /\ mpc' = "Done"
            /\ thrown' = thrown
            /\ mockResponse' = buildMockResponse(minimumYearlyData, optimizedYearlyData)
    /\ UNCHANGED <<scenarioData, currentYear, strategy, yearOffset,
                   minimumYearlyData, optimizedYearlyData, previousResponse>>
    /\ UNCHANGED <<calcVars, engineVars, uiVars>>

NextMock ==
    \/ MockBegin
    \/ MinimumYearStep
    \/ OptimizedYearStep
    \/ MockFinalize

SpecMock == InitMock /\ [][NextMock]_vars

\* The body after the timer is synchronous code and the timer always fires.
FairSpecMock == SpecMock /\ WF_vars(NextMock)

\* handleFormSubmit with the demo data switch on: the same scenario is
\* submitted once more after the first call resolved.  The first response
\* is kept for comparison and generateMockAdvice starts afresh.
MockCallAgain ==
    /\ mpc = "Done"
    /\ previousResponse = NoResponse
    /\ previousResponse' = mockResponse
    /\ mpc' = "Initializing"
    /\ currentYear' = 0
    /\ strategy' = "minimum"
    /\ yearOffset' = 0
    /\ minimumYearlyData' = <<>>
    /\ optimizedYearlyData' = <<>>
    /\ mockResponse' = NoResponse
    /\ UNCHANGED <<scenarioData, thrown>>
    /\ UNCHANGED <<calcVars, engineVars, uiVars>>

\* The two maps with their callbacks taken in any relative order (the
\* strategies computed side by side): each callback reads the inputs, the
\* year and its own yearOffset, which is the number of rows its map has
\* produced.  The response is built once both maps are complete.
MinimumYearStepAnyOrder ==
    /\ mpc = "Year"
    /\ Len(minimumYearlyData) < yearsArrayLength(scenarioData.life_expectancy_years)
    /\ strategy' = "minimum"
    /\ yearOffset' = Len(minimumYearlyData)
    /\ minimumYearlyData' =
         Append(minimumYearlyData,
                minimumYearly(scenarioData, currentYear, Len(minimumYearlyData)))
    /\ mpc' = IF /\ Len(minimumYearlyData) + 1
                      = yearsArrayLength(scenarioData.life_expectancy_years)
                 /\ Len(optimizedYearlyData)
                      = yearsArrayLength(scenarioData.life_expectancy_years)
              THEN "Finalizing" ELSE "Year"
    /\ UNCHANGED <<scenarioData, currentYear, optimizedYearlyData,
                   mockResponse, thrown, previousResponse>>
    /\ UNCHANGED <<calcVars, engineVars, uiVars>>

OptimizedYearStepAnyOrder ==
    /\ mpc = "Year"
    /\ Len(optimizedYearlyData) < yearsArrayLength(scenarioData.life_expectancy_years)
    /\ strategy' = "optimized"
    /\ yearOffset' = Len(optimizedYearlyData)
    /\ optimizedYearlyData' =
         Append(optimizedYearlyData,
                optimizedYearly(scenarioData, currentYear, Len(optimizedYearlyData)))
    /\ mpc' = IF /\ Len(optimizedYearlyData) + 1
                      = yearsArrayLength(scenarioData.life_expectancy_years)
                 /\ Len(minimumYearlyData)
                      = yearsArrayLength(scenarioData.life_expectancy_years)
              THEN "Finalizing" ELSE "Year"
    /\ UNCHANGED <<scenarioData, currentYear, minimumYearlyData,
                   mockResponse, thrown, previousResponse>>
    /\ UNCHANGED <<calcVars, engineVars, uiVars>>

NextMockInterleaved ==
    \/ MockBegin
    \/ MinimumYearStepAnyOrder
    \/ OptimizedYearStepAnyOrder
    \/ MockFinalize

SpecMockInterleaved == InitMock /\ [][NextMockInterleaved]_vars

NextMockTwice ==
    \/ NextMock
    \/ MockCallAgain

\* Two consecutive calls of the generator on one scenario.
SpecMockTwice == InitMock /\ [][NextMockTwice]_vars

\* ------------------------------------------------- claims on the generator

years == scenarioData.life_expectancy_years

\* end_rrif of each row equals start_rrif of the next one.
Continuous(rows) ==
    \A n \in 1 .. (Len(rows) - 1) : rows[n].end_rrif = rows[n + 1].start_rrif

\* C1: balance continuity. In every sequence of yearly projections produced
\* for a scenario, under every strategy and every horizon, the end-of-year
\* registered balance of year n equals the start-of-year registered balance
\* of year n+1.
C1_BalanceContinuity ==
    /\ Continuous(minimumYearlyData)
    /\ Continuous(optimizedYearlyData)

\* rows is in chronological order from the scenario's age and the run's year.
Chronological(rows) ==
    /\ \A n \in 1 .. Len(rows) :
          /\ rows[n].year = currentYear + (n - 1)
          /\ rows[n].age = scenarioData.age + (n - 1)
    /\ \A n \in 1 .. (Len(rows) - 1) :
          /\ rows[n + 1].year = rows[n].year + 1
          /\ rows[n + 1].age = rows[n].age + 1

\* The steps a run with horizon >= 1 may take: forward through the states,
\* one new projection per year step, the year index rising by one within a
\* strategy's map, no projection ever rewritten.
C2_Step ==
    years >= 1 =>
      /\ mpc = "Initializing" => mpc' = "Year" /\ yearOffset' = 0
      /\ mpc = "Year" =>
           /\ mpc' \in {"Year", "Finalizing"}
           /\ Len(minimumYearlyData') + Len(optimizedYearlyData')
                = Len(minimumYearlyData) + Len(optimizedYearlyData) + 1
           /\ SubSeq(minimumYearlyData', 1, Len(minimumYearlyData)) = minimumYearlyData
           /\ SubSeq(optimizedYearlyData', 1, Len(optimizedYearlyData)) = optimizedYearlyData
           /\ (mpc' = "Year" /\ strategy' = strategy) => yearOffset' = yearOffset + 1
           /\ (mpc' = "Year" /\ strategy' # strategy) =>
                 /\ yearOffset = years - 1
                 /\ yearOffset' = 0
                 /\ strategy = "minimum"
           /\ mpc' = "Finalizing" => yearOffset = years - 1 /\ strategy = "optimized"
           /\ IF strategy = "minimum"
              THEN Len(minimumYearlyData') = yearOffset + 1
              ELSE Len(optimizedYearlyData') = yearOffset + 1
      /\ mpc = "Finalizing" => mpc' = "Done"
      /\ mpc = "Done" => mpc' = "Done"

\* What the result holds at Done.
C2_AtDone ==
    (years >= 1 /\ mpc = "Done") =>
      /\ Len(minimumYearlyData) = years
      /\ Len(optimizedYearlyData) = years
      /\ Chronological(minimumYearlyData)
      /\ Chronological(optimizedYearlyData)
      /\ mockResponse.success
      /\ mockResponse.minimum_only_strategy.yearly_data = minimumYearlyData
      /\ mockResponse.optimized_strategy.yearly_data = optimizedYearlyData

\* C2: for a horizon H >= 1 a run goes Initializing, year steps 0..H-1 in
\* strictly increasing order with no year repeated or re-entered,
\* Finalizing, Done; it always reaches Done, and at Done the result holds
\* exactly H yearly projections in chronological order, each one year and
\* one year of age after the one before it.
C2_RunOrder ==
    /\ [][C2_Step]_vars
    /\ [](C2_AtDone)
    /\ (years >= 1) => <>(mpc = "Done")

C2_Witness ==
    /\ years >= 3
    /\ mpc = "Done"
    /\ Len(mockResponse.optimized_strategy.yearly_data) = years

\* The generator's own minimum for the year of row n (minimumWithdrawal of
\* the minimum-only map), and the balance available in that row.
MockMinimumOf(n) ==
    minimumYearly(scenarioData, currentYear, n - 1).withdrawal_amount

WithdrawalInRange(rows) ==
    \A n \in 1 .. Len(rows) :
        /\ rows[n].withdrawal_amount <= rows[n].start_rrif
        /\ rows[n].end_rrif >= 0
        /\ \/ rows[n].withdrawal_amount >= MockMinimumOf(n)
           \/ rows[n].withdrawal_amount = rows[n].start_rrif

\* C3: in every simulated year, for every strategy, the recorded withdrawal
\* w satisfies minimum <= w <= available balance, so the end-of-year
\* balance is never negative; w may be below the minimum only when the
\* balance is insufficient, and then w equals the available balance.
C3_WithdrawalInRange ==
    /\ WithdrawalInRange(minimumYearlyData)
    /\ WithdrawalInRange(optimizedYearlyData)

\* C4: a scenario whose horizon is 0 or negative fails with a
\* ValidationError before any year is simulated: no yearly projection is
\* produced and no partial result is returned.
C4_HorizonValidation ==
    years <= 0 =>
      /\ mpc # "Year"
      /\ mpc # "Done"
      /\ minimumYearlyData = <<>>
      /\ optimizedYearlyData = <<>>
      /\ mockResponse = NoResponse
      /\ mpc = "Failed" => thrown = "ValidationError"

\* ------------------------------------------------- calculators applied

\* Ages the form admits (55..110) and the ages a horizon of up to 50 years
\* can add to them.
FORM_MIN_AGE == 55

FORM_MAX_AGE == 110

FORM_MAX_HORIZON == 50

CalcAges == FORM_MIN_AGE .. (FORM_MAX_AGE + FORM_MAX_HORIZON)

CalcBalances == {0, 1, 100000, 500000, 999999}

CalcNetIncomes == {-10000, 0, 80000, 82997, 90997, 100000, 200000}

CalcBenefits == {-100, 0, 8000, 9000}

CalcThresholds == {0, OAS_CLAWBACK_THRESHOLD}

CalcRatesPct == {0, OAS_CLAWBACK_RATE_PCT, 100}

CalcIncomes == {0, 10000, 16129, 16130, 50000, 73504, 73505, 130879, 200000, 300000}

\* A two-bracket table whose upper rate is the lower one.
RegressiveBrackets ==
    << [threshold |-> 0, rate |-> 2000], [threshold |-> 50000, rate |-> 1000] >>

CalcTables == <<FederalBrackets, OntarioBrackets, RegressiveBrackets>>

CalcBPAs == {0, ONTARIO_BPA, FEDERAL_BPA}

\* cArgs by calculator:
\*   "rrif_min"     <<balance, age>>                          cOut = <<minimum>>
\*   "oas_clawback" <<net_income, oas_received, threshold, ratePct>>  cOut = <<clawback>>
\*   "bracket_tax"  <<income1, income2, table, bpa>>          cOut = <<tax1, tax2>>
InitCalc ==
    /\ IdleMock
    /\ IdleEngine
    /\ IdleUi
    /\ cOut = <<>>
    /\ \/ /\ cFn = "rrif_min"
          /\ cArgs \in CalcBalances \X CalcAges
       \/ /\ cFn = "oas_clawback"
          /\ cArgs \in CalcNetIncomes \X CalcBenefits \X CalcThresholds \X CalcRatesPct
       \/ /\ cFn = "bracket_tax"
          /\ cArgs \in CalcIncomes \X CalcIncomes \X (1 .. Len(CalcTables)) \X CalcBPAs

ApplyRrifMin ==
    /\ cFn = "rrif_min"
    /\ cOut = <<>>
    /\ cOut' = <<calculate_rrif_min_withdrawal(cArgs[1], cArgs[2])>>
    /\ UNCHANGED <<cFn, cArgs, mockVars, engineVars, uiVars>>

ApplyClawback ==
    /\ cFn = "oas_clawback"
    /\ cOut = <<>>
    /\ cOut' = <<calculate_oas_clawback(cArgs[1], cArgs[2], cArgs[3], cArgs[4])>>
    /\ UNCHANGED <<cFn, cArgs, mockVars, engineVars, uiVars>>

ApplyBracketTax ==
    /\ cFn = "bracket_tax"
    /\ cOut = <<>>
    /\ cOut' = << bracketTax(cArgs[1], CalcTables[cArgs[3]], cArgs[4]),
                  bracketTax(cArgs[2], CalcTables[cArgs[3]], cArgs[4]) >>
    /\ UNCHANGED <<cFn, cArgs, mockVars, engineVars, uiVars>>

NextCalc ==
    \/ ApplyRrifMin
    \/ ApplyClawback
    \/ ApplyBracketTax

SpecCalc == InitCalc /\ [][NextCalc]_vars

\* ------------------------------------------------- claims on the calculators

\* C6: benefitClawback is 0 whenever netIncomeExcludingBenefit +
\* benefitReceived <= threshold, and for benefitReceived >= 0 it satisfies
\* 0 <= clawback <= benefitReceived.
C6_ClawbackBounds ==
    (cFn = "oas_clawback" /\ cOut # <<>>) =>
      LET net      == cArgs[1]
          benefit  == cArgs[2]
          thresh   == cArgs[3]
          clawback == cOut[1]
      IN  /\ (net + benefit <= thresh) => clawback = 0
          /\ benefit >= 0 => (0 <= clawback /\ clawback <= benefit)

\* The cap is what bounds the result: 15% of the excess exceeds the benefit.
C6_Witness ==
    /\ cFn = "oas_clawback"
    /\ cArgs = <<200000, 8000, OAS_CLAWBACK_THRESHOLD, OAS_CLAWBACK_RATE_PCT>>
    /\ cOut = <<8000>>

C8_RegulatoryMinimum ==
    (cFn = "rrif_min" /\ cOut # <<>>) =>
      LET balance == cArgs[1]
          age     == cArgs[2]
          w       == cOut[1]
          entry   == RRIF_FACTORS[IF age > 95 THEN 95 ELSE age]
      IN  /\ age < 71 =>
                /\ w * (90 - age) <= balance
                /\ balance < (w + 1) * (90 - age)
          /\ age >= 71 =>
                /\ w * 10000 <= balance * entry
                /\ balance * entry < (w + 1) * 10000
          /\ (age = 65 /\ balance = 500000) => w = 20000
          /\ (age = 71 /\ balance = 500000) => w = 26400
          /\ (age = 72 /\ balance = 500000) => w = 27000

C8_Witness ==
    /\ cFn = "rrif_min"
    /\ cArgs = <<500000, 65>>
    /\ cOut = <<20000>>

\* ------------------------------------------------- simulation engine
\* simulate_strategy(scenario, withdrawal_logic) of the backend plan, one
\* YEAR-STEP per action.  Amounts are nominal dollars; expect_return_pct is
\* a whole percentage.

EngineAges == {55, 65, 70, 88, 94, 110}

\* 20 is a balance whose regulatory minimum is below one dollar.
EngineBalances == {0, 20, 100000, 500000}

EngineHorizons == (-1) .. MaxYears

EngineReturnsPct == {-10, 0, 5}

EngineOtherIncome == {0, 90000}

EngineProvinces == {"ON", "XX"}

KnownProvinces == {"ON"}

\* Years from the current age to the target depletion age.
EngineTargetOffsets == {1, 2}

WithdrawalPolicies == {"Minimum", "TopUpToThreshold", "TargetDepletion"}

EngineScenarios ==
    { [ age                       |-> a,
        rrsp_balance              |-> b,
        planning_horizon_years    |-> h,
        expect_return_pct         |-> r,
        pension_income            |-> 0,
        cpp_start_age             |-> 65,
        cpp_amount                |-> 10000,
        oas_start_age             |-> 67,
        oas_amount                |-> 8000,
        other_investment_income   |-> o,
        tfsa_balance              |-> 0,
        target_rrif_depletion_age |-> a + t,
        province                  |-> p,
        start_year                |-> 2026 ] :
      a \in EngineAges, b \in EngineBalances, h \in EngineHorizons,
      r \in EngineReturnsPct, o \in EngineOtherIncome,
      t \in EngineTargetOffsets, p \in EngineProvinces }

\* Growth net of a one per cent fee.
ApplyGrowth_withFee(sc, balance) ==
    Scale(balance, 100 + sc.expect_return_pct - 1, 100)

\* Growth computed on the scenario's opening balance in every year.
ApplyGrowth_onOpening(sc, balance) ==
    balance + Scale(sc.rrsp_balance, sc.expect_return_pct, 100)

\* grown = balance * (1 + expectedReturnRate).
ApplyGrowth(sc, balance) ==
    Scale(balance, 100 + sc.expect_return_pct, 100)

\* A policy's answer: an amount, or a non-finite value (NaN, infinity).
Amount(n) == [finite |-> TRUE, amount |-> n]

NonFinite == [finite |-> FALSE, amount |-> 0]

\* Benefits payable at `age`: the pension is fixed, CPP and OAS are paid
\* from their start ages on.
BenefitsAt(sc, age) ==
    [ pension |-> sc.pension_income,
      cpp     |-> IF age >= sc.cpp_start_age THEN sc.cpp_amount ELSE 0,
      oas     |-> IF age >= sc.oas_start_age THEN sc.oas_amount ELSE 0 ]

\* Minimum: exactly the regulatory minimum.
get_min_withdrawal(sc, grown, age) ==
    calculate_rrif_min_withdrawal(grown, age)

\* TopUpToThreshold: the minimum plus the gap (if positive) between the
\* clawback threshold and the other taxable income plus the minimum, never
\* more than the available balance.  (The cap against desired spending can
\* only lower the amount toward the minimum; it is left out, the year step
\* clamps to [minimum, grown] either way.)
get_optimized_withdrawal(sc, grown, age) ==
    LET minimum == calculate_rrif_min_withdrawal(grown, age)
        ben     == BenefitsAt(sc, age)
        other   == sc.other_investment_income + ben.pension + ben.cpp + ben.oas
        gap     == Max(0, OAS_CLAWBACK_THRESHOLD - (other + minimum))
    IN  Min(minimum + gap, grown)

\* TargetDepletion: the balance spread evenly over the years left to the
\* target age (all of it at or past the target age), floored at the
\* regulatory minimum.
get_target_depletion_withdrawal(sc, grown, age) ==
    LET minimum   == calculate_rrif_min_withdrawal(grown, age)
        yearsLeft == sc.target_rrif_depletion_age - age
        amortized == IF yearsLeft <= 0 THEN grown ELSE grown \div yearsLeft
    IN  Max(minimum, amortized)

\* What the policy may return in a year.  The three policies return one
\* amount; "Faulty" stands for a policy with a bug, whose answer may be
\* negative, non-finite, or in range.
PolicyAnswers(policy, sc, grown, age) ==
    CASE policy = "Minimum"          -> {Amount(get_min_withdrawal(sc, grown, age))}
      [] policy = "TopUpToThreshold" -> {Amount(get_optimized_withdrawal(sc, grown, age))}
      [] policy = "TargetDepletion"  -> {Amount(get_target_depletion_withdrawal(sc, grown, age))}
      [] OTHER -> {Amount(-1), NonFinite, Amount(get_min_withdrawal(sc, grown, age))}

ValidAnswer(ans) == ans.finite /\ ans.amount >= 0

\* Clamp to [minimum, grown], floored at the available balance.
ClampWithdrawal(ans, minimum, grown) ==
    Min(Max(ans.amount, minimum), grown)

\* Every answer accepted, so that the clamp decides the amount.
AcceptsAnswer_always(ans) == TRUE

\* Whether the year step accepts the policy's answer (else PolicyError).
AcceptsAnswer(ans) == ValidAnswer(ans)

\* One YEAR-STEP (steps 1 to 11): the YearlyProjection of the year.
YearProjection(sc, st, withdrawal) ==
    LET grown    == ApplyGrowth(sc, st.balance)
        minimum  == calculate_rrif_min_withdrawal(grown, st.age)
        ben      == BenefitsAt(sc, st.age)
        other    == sc.other_investment_income
        clawback == calculate_oas_clawback(withdrawal + other + ben.pension + ben.cpp,
                                           ben.oas, OAS_CLAWBACK_THRESHOLD,
                                           OAS_CLAWBACK_RATE_PCT)
        taxable  == withdrawal + ben.pension + (ben.oas - clawback) + ben.cpp + other
        tax      == calculate_total_tax(taxable, st.age)
    IN  [ year                 |-> sc.start_year + st.yearIndex,
          age                  |-> st.age,
          start_rrif           |-> st.balance,
          withdrawal           |-> withdrawal,
          investment_growth    |-> grown - st.balance,
          min_withdrawal       |-> minimum,
          pension              |-> ben.pension,
          cpp                  |-> ben.cpp,
          oas                  |-> ben.oas - clawback,
          oas_clawback         |-> clawback,
          other_taxable_income |-> other,
          total_taxable_income |-> taxable,
          federal_tax          |-> tax.federal,
          provincial_tax       |-> tax.regional,
          total_tax            |-> tax.total,
          net_cash_after_tax   |-> taxable - tax.total,
          end_rrif             |-> grown - withdrawal,
          tfsa_balance         |-> sc.tfsa_balance ]

RECURSIVE SumTotalTax(_)
SumTotalTax(rows) ==
    IF rows = <<>> THEN 0 ELSE Head(rows).total_tax + SumTotalTax(Tail(rows))

RECURSIVE CountClawbackYears(_)
CountClawbackYears(rows) ==
    IF rows = <<>> THEN 0
    ELSE (IF Head(rows).oas_clawback > 0 THEN 1 ELSE 0) + CountClawbackYears(Tail(rows))

\* SummaryMetrics derived from the ledger.
Summarize(rows) ==
    [ computed                    |-> TRUE,
      total_tax_paid              |-> SumTotalTax(rows),
      terminal_rrif_balance       |-> rows[Len(rows)].end_rrif,
      years_oas_clawback          |-> CountClawbackYears(rows),
      rrif_balance_at_end_horizon |-> rows[Len(rows)].end_rrif ]

\* HouseholdState of year 0 with one year of growth already applied.
InitialState_grown(sc) ==
    [ age       |-> sc.age,
      balance   |-> Scale(sc.rrsp_balance, 100 + sc.expect_return_pct, 100),
      yearIndex |-> 0 ]

\* HouseholdState of year 0, derived directly from the Scenario.
InitialState(sc) ==
    [ age       |-> sc.age,
      balance   |-> sc.rrsp_balance,
      yearIndex |-> 0 ]

InitEngineWith(policies) ==
    /\ IdleMock
    /\ IdleCalc
    /\ IdleUi
    /\ eScenario \in EngineScenarios
    /\ ePolicy \in policies
    /\ ePc = "Initializing"
    /\ eState = [age |-> 0, balance |-> 0, yearIndex |-> 0]
    /\ eProjections = <<>>
    /\ eResult = NoSummary
    /\ ePolicyAnswer = [finite |-> TRUE, amount |-> 0]
    /\ eError = "none"

InitEngine == InitEngineWith(WithdrawalPolicies)

InitPolicyFault == InitEngineWith(WithdrawalPolicies \cup {"Faulty"})

\* Initializing: the scenario is validated (horizon >= 1), the rule table
\* of the jurisdiction is looked up, and HouseholdState is derived from the
\* scenario with no growth applied.
EngineInitialize ==
    /\ ePc = "Initializing"
    /\ IF eScenario.planning_horizon_years <= 0
       THEN /\ ePc' = "Failed"
            /\ eError' = "ValidationError"
            /\ eState' = eState
       ELSE IF eScenario.province \notin KnownProvinces
       THEN /\ ePc' = "Failed"
            /\ eError' = "ConfigurationError"
            /\ eState' = eState
       ELSE /\ ePc' = "Year"
            /\ eError' = eError
            /\ eState' = InitialState(eScenario)
    /\ UNCHANGED <<eScenario, ePolicy, eProjections, eResult, ePolicyAnswer>>
    /\ UNCHANGED <<mockVars, calcVars, uiVars>>

\* One YEAR-STEP with an accepted policy answer: the projection is
\* appended, the balance and the ages advance.
EngineYearStep ==
    /\ ePc = "Year"
    /\ LET grown   == ApplyGrowth(eScenario, eState.balance)
           minimum == calculate_rrif_min_withdrawal(grown, eState.age)
       IN  \E ans \in PolicyAnswers(ePolicy, eScenario, grown, eState.age) :
              /\ AcceptsAnswer(ans)
              /\ ePolicyAnswer' = ans
              /\ LET w   == ClampWithdrawal(ans, minimum, grown)
                     row == YearProjection(eScenario, eState, w)
                 IN  /\ eProjections' = Append(eProjections, row)
                     /\ eState' = [ age       |-> eState.age + 1,
                                    balance   |-> row.end_rrif,
                                    yearIndex |-> eState.yearIndex + 1 ]
    /\ ePc' = IF eState.yearIndex + 1 = eScenario.planning_horizon_years
              THEN "Finalizing" ELSE "Year"
    /\ UNCHANGED <<eScenario, ePolicy, eResult, eError>>
    /\ UNCHANGED <<mockVars, calcVars, uiVars>>

\* One YEAR-STEP whose policy answer is negative or non-finite: the run
\* ends with a PolicyError and its projections are abandoned.
EnginePolicyError ==
    /\ ePc = "Year"
    /\ LET grown == ApplyGrowth(eScenario, eState.balance)
       IN  \E ans \in PolicyAnswers(ePolicy, eScenario, grown, eState.age) :
              /\ ~AcceptsAnswer(ans)
              /\ ePolicyAnswer' = ans
    /\ ePc' = "Failed"
    /\ eError' = "PolicyError"
    /\ eProjections' = <<>>
    /\ UNCHANGED <<eScenario, ePolicy, eState, eResult>>
    /\ UNCHANGED <<mockVars, calcVars, uiVars>>

\* Finalizing: the summary metrics are computed from the ledger.
EngineFinalize ==
    /\ ePc = "Finalizing"
    /\ ePc' = "Done"
    /\ eResult' = Summarize(eProjections)
    /\ UNCHANGED <<eScenario, ePolicy, eState, eProjections, ePolicyAnswer, eError>>
    /\ UNCHANGED <<mockVars, calcVars, uiVars>>

NextEngine ==
    \/ EngineInitialize
    \/ EngineYearStep
    \/ EngineFinalize

SpecEngine == InitEngine /\ [][NextEngine]_vars

NextPolicyFault ==
    \/ EngineInitialize
    \/ EngineYearStep
    \/ EnginePolicyError
    \/ EngineFinalize

\* The engine run with a policy that may misbehave.
SpecPolicyFault == InitPolicyFault /\ [][NextPolicyFault]_vars

\* ------------------------------------------------- claims on the engine

\* C5: when the policy returns a negative or non-finite amount in any
\* year, the run ends in PolicyError and emits no result; the amount is not
\* replaced by a clamped value (no projection is recorded from it).
C5_PolicyErrorIsFatal ==
    ~ValidAnswer(ePolicyAnswer) =>
      /\ ePc = "Failed"
      /\ eError = "PolicyError"
      /\ eProjections = <<>>
      /\ eResult = NoSummary

\* A non-finite answer in a year after the first.
C5_Witness ==
    /\ ePc = "Failed"
    /\ eError = "PolicyError"
    /\ ~ePolicyAnswer.finite
    /\ eState.yearIndex >= 1

C10_DepletionAbsorbing ==
    /\ \A k \in 1 .. Len(eProjections) : \A n \in 1 .. Len(eProjections) :
         (k < n /\ eProjections[k].end_rrif = 0) =>
            /\ eProjections[n].withdrawal = 0
            /\ eProjections[n].investment_growth = 0
            /\ eProjections[n].end_rrif = 0
    /\ (\E k \in 1 .. Len(eProjections) : eProjections[k].end_rrif = 0) =>
         /\ eError = "none"
         /\ ePc \in {"Year", "Finalizing", "Done"}
         /\ ePc \in {"Finalizing", "Done"} =>
               Len(eProjections) = eScenario.planning_horizon_years
         /\ ePc = "Year" => Len(eProjections) < eScenario.planning_horizon_years

\* A positive balance exhausted at the end of the second year of a longer run.
C10_Witness ==
    /\ ePc = "Done"
    /\ Len(eProjections) >= 3
    /\ eProjections[1].start_rrif > 0
    /\ eProjections[2].start_rrif > 0
    /\ eProjections[2].end_rrif = 0
    /\ eProjections[3].withdrawal = 0

\* C11: within one year step growth is applied before the withdrawal: the
\* recorded end-of-year balance equals start-of-year balance * (1 +
\* expected return rate) minus the recorded withdrawal (the growth recorded
\* being that product less the start balance); and the start-of-year
\* balance of year 0 is the scenario's registered balance, no growth applied.
C11_GrowthBeforeWithdrawal ==
    /\ \A n \in 1 .. Len(eProjections) :
         LET row == eProjections[n]
             r   == eScenario.expect_return_pct
         IN  /\ row.end_rrif = Scale(row.start_rrif, 100 + r, 100) - row.withdrawal
             /\ row.investment_growth = Scale(row.start_rrif, 100 + r, 100) - row.start_rrif
    /\ Len(eProjections) >= 1 =>
         eProjections[1].start_rrif = eScenario.rrsp_balance
    /\ (ePc = "Year" /\ eState.yearIndex = 0) =>
         eState.balance = eScenario.rrsp_balance

\* A finished run with a positive return whose first withdrawal is larger
\* than the opening balance alone and is covered by the grown balance.
C11_Witness ==
    /\ ePc = "Done"
    /\ eScenario.expect_return_pct > 0
    /\ Len(eProjections) >= 2
    /\ eProjections[1].start_rrif = eScenario.rrsp_balance
    /\ eProjections[1].withdrawal > eProjections[1].start_rrif
    /\ eProjections[1].end_rrif = 0

\* C12: in a scenario with zero expected return in which the withdrawal is
\* zero in every year, the registered balance is the same at the start and
\* at the end of every simulated year: it is the scenario's opening balance
\* throughout the horizon.
C12_NoOpIdempotence ==
    (/\ eScenario.expect_return_pct = 0
     /\ \A n \in 1 .. Len(eProjections) : eProjections[n].withdrawal = 0) =>
       /\ \A n \in 1 .. Len(eProjections) :
            /\ eProjections[n].start_rrif = eScenario.rrsp_balance
            /\ eProjections[n].end_rrif = eScenario.rrsp_balance
            /\ eProjections[n].investment_growth = 0
       /\ ePc \in {"Year", "Finalizing", "Done"} =>
            eState.balance = eScenario.rrsp_balance
       /\ ePc = "Done" => eResult.terminal_rrif_balance = eScenario.rrsp_balance

\* A finished zero-return run of three years or more on a positive balance
\* in which nothing was withdrawn.
C12_Witness ==
    /\ ePc = "Done"
    /\ eScenario.expect_return_pct = 0
    /\ eScenario.rrsp_balance > 0
    /\ Len(eProjections) >= 3
    /\ \A n \in 1 .. Len(eProjections) : eProjections[n].withdrawal = 0
    /\ eProjections[Len(eProjections)].end_rrif = eScenario.rrsp_balance

\* ------------------------------------------------- claims on repeated and
\* interleaved runs of the generator

\* C13: determinism. Two runs on the same scenario with the same rules and
\* the same set of policies produce identical results in every field of
\* every yearly projection and every summary metric; no output depends on
\* anything but the scenario and the rules (not on the wall-clock date at
\* the time of the run).
C13_Deterministic ==
    (mpc = "Done" /\ previousResponse # NoResponse) =>
        mockResponse = previousResponse

\* The rows a strategy's map yields when it runs alone, up to length len.
AloneMinimum(len) ==
    [n \in 1 .. len |-> minimumYearly(scenarioData, currentYear, n - 1)]

AloneOptimized(len) ==
    [n \in 1 .. len |-> optimizedYearly(scenarioData, currentYear, n - 1)]

\* C14: the strategy runs of one comparison are independent: whatever the
\* interleaving of their year steps, each strategy's projections are those
\* of running it alone, and the finished results have the same number of
\* years, aligned one to one by year index (same year and age at each index).
C14_RunsIndependent ==
    /\ minimumYearlyData = AloneMinimum(Len(minimumYearlyData))
    /\ optimizedYearlyData = AloneOptimized(Len(optimizedYearlyData))
    /\ mpc \in {"Finalizing", "Done"} =>
         /\ Len(minimumYearlyData) = Len(optimizedYearlyData)
         /\ Len(minimumYearlyData) = yearsArrayLength(years)
         /\ \A n \in 1 .. Len(minimumYearlyData) :
              /\ minimumYearlyData[n].year = optimizedYearlyData[n].year
              /\ minimumYearlyData[n].age = optimizedYearlyData[n].age
    /\ mpc = "Done" =>
         /\ mockResponse.minimum_only_strategy.yearly_data
              = AloneMinimum(yearsArrayLength(years))
         /\ mockResponse.optimized_strategy.yearly_data
              = AloneOptimized(yearsArrayLength(years))

\* The optimized map has run ahead of the minimum-only map, which has
\* just produced a row of its own on a positive balance.
C14_Witness ==
    /\ mpc = "Year"
    /\ strategy = "minimum"
    /\ scenarioData.rrsp_balance > 0
    /\ Len(minimumYearlyData) >= 2
    /\ Len(optimizedYearlyData) > Len(minimumYearlyData)

\* The sum of tax_paid over rows, added up from the last row backwards.
RECURSIVE LedgerTax(_, _)
LedgerTax(rows, n) ==
    IF n = 0 THEN 0 ELSE rows[n].tax_paid + LedgerTax(rows, n - 1)

\* C15: summary and savings are derived only from the yearly ledger: a
\* strategy's total tax paid is the sum of the tax of its yearly
\* projections, its terminal registered balance is the end-of-year balance
\* of its last projection, and the comparison's tax saving is the
\* difference of the two strategies' total tax (likewise for the terminal
\* tax estimate).
C15_SummaryFromLedger ==
    mockResponse.success =>
      LET minS == mockResponse.minimum_only_strategy
          optS == mockResponse.optimized_strategy
          sav  == mockResponse.savings_summary
      IN  /\ minS.total_tax_paid = LedgerTax(minS.yearly_data, Len(minS.yearly_data))
          /\ optS.total_tax_paid = LedgerTax(optS.yearly_data, Len(optS.yearly_data))
          /\ minS.terminal_rrif_balance = minS.yearly_data[Len(minS.yearly_data)].end_rrif
          /\ optS.terminal_rrif_balance = optS.yearly_data[Len(optS.yearly_data)].end_rrif
          /\ sav.total_tax_saved = minS.total_tax_paid - optS.total_tax_paid
          /\ sav.terminal_tax_saved
               = minS.terminal_tax_estimate - optS.terminal_tax_estimate

\* A response of three years or more whose strategies differ in total tax
\* and in terminal balance, and whose last row is not its first.
C15_Witness ==
    /\ mpc = "Done"
    /\ mockResponse.success
    /\ Len(mockResponse.minimum_only_strategy.yearly_data) >= 3
    /\ mockResponse.savings_summary.total_tax_saved # 0
    /\ mockResponse.savings_summary.terminal_tax_saved # 0
    /\ mockResponse.minimum_only_strategy.terminal_rrif_balance
         # mockResponse.minimum_only_strategy.yearly_data[1].end_rrif
    /\ mockResponse.minimum_only_strategy.terminal_rrif_balance
         # mockResponse.optimized_strategy.terminal_rrif_balance

\* ------------------------------------------------- generateAdvice and App
\* services/api.ts exists in two versions that differ in the messages of
\* the catch block; apiVersion selects one.  Texts are modelled as
\* sequences of fragments so that what a message contains can be read off.

ApiVersions == {"part_000", "services/api.ts"}

JsOr(a, b) == IF a # "" THEN a ELSE b

\* One YearlyProjection of a response (the fields the table shows).
ResponseRow(year, age, withdrawal, end) ==
    [ year |-> year, age |-> age, pension |-> 12000, cpp |-> 10000,
      oas |-> 7000, oas_clawback |-> 1000, withdrawal |-> withdrawal,
      other_taxable_income |-> 5000, total_tax |-> 9000,
      net_cash_after_tax |-> withdrawal + 25000, end_rrif |-> end ]

MinimumResult ==
    [ strategy_name |-> "Minimum Only",
      yearly_data   |-> << ResponseRow(2026, 65, 20000, 480000),
                           ResponseRow(2027, 66, 20000, 460000) >> ]

TopUpResult ==
    [ strategy_name |-> "Top-up-to-OAS",
      yearly_data   |-> << ResponseRow(2026, 65, 45000, 455000),
                           ResponseRow(2027, 66, 45000, 410000),
                           ResponseRow(2028, 67, 45000, 365000) >> ]

EmptyResult == [ strategy_name |-> "Minimum Only", yearly_data |-> <<>> ]

\* report_markdown is empty when the explanation could not be generated.
ReportTexts == {"", "## Recommended strategy"}

SimulationResults ==
    { <<>>, <<MinimumResult>>, <<MinimumResult, TopUpResult>>,
      <<TopUpResult, MinimumResult>>, <<EmptyResult>> }

ResponseBodies ==
    { [ result_id |-> "r-1", report_markdown |-> t, simulation_results |-> sr ] :
        t \in ReportTexts, sr \in SimulationResults }

NoBody == [result_id |-> "none"]

ErrorStatuses == {"400", "404", "422", "500", "501"}

\* response.data.detail and response.data.message of an error response
\* ("" when the field is absent or empty).
BackendDetails ==
    {"", "age must be at least 55", "ZeroDivisionError in calculate_rrif_min_withdrawal"}

BackendMessages == {"", "Unprocessable scenario"}

\* The ways apiClient.post can end.
HttpOutcomes ==
    { [kind |-> "success", status |-> "200", detail |-> "", dataMessage |-> "",
       message |-> "", body |-> b] : b \in ResponseBodies }
    \cup
    { [kind |-> "response", status |-> st, detail |-> d, dataMessage |-> m,
       message |-> "Request failed with status code", body |-> NoBody] :
        st \in ErrorStatuses, d \in BackendDetails, m \in BackendMessages }
    \cup
    { [kind |-> "noResponse", status |-> "", detail |-> "", dataMessage |-> "",
       message |-> m, body |-> NoBody] :
        m \in {"Network Error", "timeout exceeded"} }
    \cup
    { [kind |-> "setup", status |-> "", detail |-> "", dataMessage |-> "",
       message |-> "Invalid URL", body |-> NoBody] }
    \cup
    { [kind |-> "error", status |-> "", detail |-> "", dataMessage |-> "",
       message |-> m, body |-> NoBody] : m \in {"", "x is not a function"} }
    \cup
    { [kind |-> "thrown", status |-> "", detail |-> "", dataMessage |-> "",
       message |-> "", body |-> NoBody] }

\* data?.detail || data?.message || axiosError.message
backendDetail(o) == JsOr(o.detail, JsOr(o.dataMessage, o.message))

\* errorMessage of the catch block, by version and failure kind.
errorMessage(version, o) ==
    CASE o.kind = "response" ->
           IF version = "part_000"
           THEN CASE o.status = "400" -> <<"Input Error: ", backendDetail(o)>>
                  [] o.status = "500" ->
                       <<"Server Error: An internal error occurred. Please try again later or check server logs. (",
                         backendDetail(o), ")">>
                  [] o.status = "501" -> <<"Not Implemented: ", backendDetail(o)>>
                  [] OTHER -> <<"Error ", o.status, ": ", backendDetail(o)>>
           ELSE <<"Error ", o.status, ": ", backendDetail(o)>>
      [] o.kind = "noResponse" ->
           IF version = "part_000"
           THEN <<"Could not connect to the planner service. Please check your network connection and ensure the API server is running and accessible.">>
           ELSE <<"Could not connect to the planner service. Please check your network connection and ensure the API server is running.">>
      [] o.kind = "setup" -> <<"Request setup error: ", o.message>>
      [] o.kind = "error" ->
           IF version = "part_000"
           THEN <<"An unexpected application error occurred: ", o.message>>
           ELSE <<"An unexpected error occurred: ", o.message>>
      [] OTHER -> <<"An unknown error occurred while contacting the server.">>

\* generateAdvice that resolves with undefined when no response arrived.
settleAdvice_swallowNoResponse(version, o) ==
    CASE o.kind = "success"    -> [state |-> "resolved", value |-> o.body]
      [] o.kind = "noResponse" -> [state |-> "resolved", value |-> NoBody]
      [] OTHER -> [state |-> "rejected", isError |-> TRUE,
                   message |-> errorMessage(version, o)]

\* What the promise of generateAdvice settles with: return response.data,
\* or throw new Error(errorMessage).
settleAdvice(version, o) ==
    IF o.kind = "success"
    THEN [state |-> "resolved", value |-> o.body]
    ELSE [state |-> "rejected", isError |-> TRUE,
          message |-> errorMessage(version, o)]

\* A text is falsy in JavaScript when it is the empty string.
IsEmptyText(fragments) == \A i \in 1 .. Len(fragments) : fragments[i] = ""

\* simulation_results?.find(...) || simulation_results?.[0]; an undefined
\* result is the strategy with no name and no rows.
NoStrategy == [strategy_name |-> "", yearly_data |-> <<>>]

tableStrategyData(data) ==
    LET sr == data.simulation_results
        hits == {i \in 1 .. Len(sr) : sr[i].strategy_name = "Top-up-to-OAS"}
    IN  IF hits # {}
        THEN sr[CHOOSE i \in hits : \A j \in hits : i <= j]
        ELSE IF Len(sr) > 0 THEN sr[1] ELSE NoStrategy

\* formatCurrency: CAD with no fraction digits (amounts are whole dollars).
formatCurrency(value) == [currency |-> "CAD", dollars |-> value]

\* One TableRow of the detailed projection table.
ProjectionTableRow(row) ==
    [ key          |-> row.year,
      year         |-> row.year,
      age          |-> row.age,
      pension      |-> formatCurrency(row.pension),
      cpp          |-> formatCurrency(row.cpp),
      oas          |-> formatCurrency(row.oas),
      withdrawal   |-> formatCurrency(row.withdrawal),
      total_income |-> formatCurrency(row.pension + row.cpp + row.oas + row.oas_clawback
                                        + row.withdrawal + row.other_taxable_income),
      total_tax    |-> formatCurrency(row.total_tax),
      net_cash     |-> formatCurrency(row.net_cash_after_tax),
      end_rrif     |-> formatCurrency(row.end_rrif) ]

\* The dashboard with the projection table shown only under a report.
ResultsDashboard_tableUnderReport(data) ==
    LET shown == tableStrategyData(data)
        rows  == IF data.report_markdown # "" THEN shown.yearly_data ELSE <<>>
    IN  [ rendered           |-> TRUE,
          exportDisabled     |-> data.report_markdown = "",
          reportShown        |-> data.report_markdown,
          reportNotAvailable |-> data.report_markdown = "",
          tableShown         |-> Len(rows) > 0,
          tableStrategy      |-> shown.strategy_name,
          tableRows          |-> [n \in 1 .. Len(rows) |-> ProjectionTableRow(rows[n])] ]

\* What ResultsDashboard renders for `data`.
ResultsDashboard(data) ==
    LET shown == tableStrategyData(data)
        rows  == shown.yearly_data
    IN  [ rendered           |-> TRUE,
          exportDisabled     |-> data.report_markdown = "",
          reportShown        |-> data.report_markdown,
          reportNotAvailable |-> data.report_markdown = "",
          tableShown         |-> Len(rows) > 0,
          tableStrategy      |-> shown.strategy_name,
          tableRows          |-> [n \in 1 .. Len(rows) |-> ProjectionTableRow(rows[n])] ]

NoDashboard == [rendered |-> FALSE]

\* What App renders below the form: the spinner, the error alert and the
\* dashboard.
AppView ==
    [ spinner   |-> isLoading,
      alert     |-> IF ~IsEmptyText(error) /\ ~isLoading THEN error ELSE NoError,
      dashboard |-> IF ~isLoading /\ IsEmptyText(error) /\ results # NoResults
                    THEN ResultsDashboard(results) ELSE NoDashboard ]

InitApp ==
    /\ IdleMock
    /\ IdleCalc
    /\ IdleEngine
    /\ apiVersion \in ApiVersions
    /\ apc = "Idle"
    /\ isLoading = FALSE
    /\ results = NoResults
    /\ error = NoError
    /\ httpOutcome = NoOutcome
    /\ advice = PendingAdvice
    /\ inFlight = 0
    /\ IdleForm

\* A submit button that is never disabled.
SubmitDisabled_never == FALSE

\* The submit button of InputForm: disabled={isLoading}, with the isLoading
\* that App passes down.
SubmitDisabled == isLoading

\* handleFormSubmit that leaves the previous results in place.
HandleFormSubmit_keepsResults ==
    /\ ~SubmitDisabled
    /\ inFlight < MaxInFlight
    /\ isLoading' = TRUE
    /\ error' = NoError
    /\ results' = results
    /\ httpOutcome' = NoOutcome
    /\ advice' = PendingAdvice
    /\ apc' = "Requesting"
    /\ inFlight' = inFlight + 1
    /\ UNCHANGED apiVersion
    /\ UNCHANGED <<mockVars, calcVars, engineVars, formVars>>

\* handleFormSubmit up to the await, called by the form when the submit
\* button is pressed and the form is valid: the state is reset and the
\* request is sent.
HandleFormSubmit ==
    /\ ~SubmitDisabled
    /\ inFlight < MaxInFlight
    /\ isLoading' = TRUE
    /\ error' = NoError
    /\ results' = NoResults
    /\ httpOutcome' = NoOutcome
    /\ advice' = PendingAdvice
    /\ apc' = "Requesting"
    /\ inFlight' = inFlight + 1
    /\ UNCHANGED apiVersion
    /\ UNCHANGED <<mockVars, calcVars, engineVars, formVars>>

\* generateAdvice from the end of the HTTP call: the try returns
\* response.data, the catch throws new Error(errorMessage).
GenerateAdviceSettles ==
    /\ apc = "Requesting"
    /\ \E o \in HttpOutcomes :
          /\ httpOutcome' = o
          /\ advice' = settleAdvice(apiVersion, o)
    /\ apc' = "Settled"
    /\ inFlight' = inFlight - 1
    /\ UNCHANGED <<apiVersion, isLoading, results, error>>
    /\ UNCHANGED <<mockVars, calcVars, engineVars, formVars>>

\* handleFormSubmit without the finally block: isLoading is reset only
\* after setResults.
HandleFormSubmitResumes_noFinally ==
    /\ apc = "Settled"
    /\ IF advice.state = "resolved"
       THEN /\ results' = advice.value
            /\ error' = error
            /\ isLoading' = FALSE
       ELSE /\ results' = results
            /\ error' = IF ~IsEmptyText(advice.message) THEN advice.message
                        ELSE <<"Failed to generate advice due to an unknown error.">>
            /\ isLoading' = isLoading
    /\ apc' = "Idle"
    /\ UNCHANGED <<apiVersion, httpOutcome, advice, inFlight>>
    /\ UNCHANGED <<mockVars, calcVars, engineVars, formVars>>

\* handleFormSubmit after the await: setResults(response), or
\* setError(err.message || "Failed to generate advice ..."), and in either
\* case setIsLoading(false).
HandleFormSubmitResumes ==
    /\ apc = "Settled"
    /\ IF advice.state = "resolved"
       THEN /\ results' = advice.value
            /\ error' = error
       ELSE /\ results' = results
            /\ error' = IF ~IsEmptyText(advice.message) THEN advice.message
                        ELSE <<"Failed to generate advice due to an unknown error.">>
    /\ isLoading' = FALSE
    /\ apc' = "Idle"
    /\ UNCHANGED <<apiVersion, httpOutcome, advice, inFlight>>
    /\ UNCHANGED <<mockVars, calcVars, engineVars, formVars>>

NextApp ==
    \/ HandleFormSubmit
    \/ GenerateAdviceSettles
    \/ HandleFormSubmitResumes

SpecApp == InitApp /\ [][NextApp]_vars

\* The request promise settles, and the continuation of handleFormSubmit
\* after the await is run, once they can be.
FairSpecApp ==
    /\ SpecApp
    /\ WF_vars(GenerateAdviceSettles)
    /\ WF_vars(HandleFormSubmitResumes)

\* ------------------------------------------------- claims on App and generateAdvice

\* Every strategy of the response has yearly projections.
HasProjections(body) ==
    /\ Len(body.simulation_results) > 0
    /\ \A i \in 1 .. Len(body.simulation_results) :
          Len(body.simulation_results[i].yearly_data) > 0

\* C16: a missing explanation never blocks the numeric output: when the
\* response carries an empty report_markdown and non-empty simulation
\* results, the dashboard shows the 'report not available' notice and still
\* renders the whole yearly projection table (one table row per projection
\* of the strategy shown, in order); and no successful response puts the
\* application in its error state, with or without the explanation.
C16_ExplanationOptional ==
    (apc = "Idle" /\ httpOutcome.kind = "success") =>
      /\ error = NoError
      /\ AppView.alert = NoError
      /\ results = httpOutcome.body
      /\ (httpOutcome.body.report_markdown = "" /\ HasProjections(httpOutcome.body)) =>
           LET view  == AppView.dashboard
               shown == tableStrategyData(httpOutcome.body).yearly_data
           IN  /\ view.rendered
               /\ view.reportNotAvailable
               /\ view.reportShown = ""
               /\ view.tableShown
               /\ Len(view.tableRows) = Len(shown)
               /\ \A n \in 1 .. Len(shown) :
                    /\ view.tableRows[n].year = shown[n].year
                    /\ view.tableRows[n].age = shown[n].age
                    /\ view.tableRows[n].withdrawal.dollars = shown[n].withdrawal
                    /\ view.tableRows[n].end_rrif.dollars = shown[n].end_rrif

\* A response without a report and with two strategies: the notice is
\* shown above the three rows of the Top-up-to-OAS strategy.
C16_Witness ==
    /\ apc = "Idle"
    /\ httpOutcome.kind = "success"
    /\ results.report_markdown = ""
    /\ results.simulation_results = <<MinimumResult, TopUpResult>>
    /\ AppView.dashboard.rendered
    /\ AppView.dashboard.reportNotAvailable
    /\ AppView.dashboard.tableStrategy = "Top-up-to-OAS"
    /\ Len(AppView.dashboard.tableRows) = 3

\* C17: generateAdvice has exactly two outcomes for every way the HTTP
\* call can end: on a successful response it resolves with the response
\* body unchanged; on any failure (error status, no response, request
\* set-up failure, a non-axios exception) it rejects with an Error whose
\* message is a non-empty text chosen by the failure kind (no two kinds
\* share a message); it never resolves on failure and never rethrows the
\* raw error.
C17_TwoOutcomes ==
    httpOutcome # NoOutcome =>
      /\ advice.state \in {"resolved", "rejected"}
      /\ httpOutcome.kind = "success" =>
           advice = [state |-> "resolved", value |-> httpOutcome.body]
      /\ httpOutcome.kind # "success" =>
           /\ advice.state = "rejected"
           /\ advice.isError
           /\ ~IsEmptyText(advice.message)
           /\ Head(advice.message) # ""
           /\ advice.message # <<httpOutcome.message>>
           /\ \A o \in HttpOutcomes :
                (o.kind \notin {"success", httpOutcome.kind}) =>
                   Head(errorMessage("part_000", o)) # Head(advice.message)
                   /\ Head(errorMessage("services/api.ts", o)) # Head(advice.message)

\* A non-axios Error with an empty message of its own, rejected with the
\* text of the catch block.
C17_Witness ==
    /\ apc = "Settled"
    /\ httpOutcome.kind = "error"
    /\ httpOutcome.message = ""
    /\ advice.state = "rejected"
    /\ Len(advice.message) = 2

\* The fragments of `message` taken from the backend's error response.
BackendTextIn(message) ==
    {message[i] : i \in 1 .. Len(message)}
      \cap ({httpOutcome.detail, httpOutcome.dataMessage} \ {""})

\* C18: error visibility by kind. When the backend rejects the request for
\* a structural (input) reason (HTTP 400 or 422) the message shown to the
\* user carries the backend's human-readable reason; when the backend
\* reports an internal computation error (HTTP 500) the message shown is a
\* generic failure with no text taken from the backend's error detail.
C18_ErrorVisibility ==
    (apc = "Idle" /\ httpOutcome.kind = "response") =>
      /\ (httpOutcome.status \in {"400", "422"} /\ httpOutcome.detail # "") =>
            httpOutcome.detail \in BackendTextIn(AppView.alert)
      /\ httpOutcome.status = "500" => BackendTextIn(AppView.alert) = {}

\* ------------------------------------------------- InputForm
\* A text is a sequence of one-character strings.  A number is carried in
\* thousandths (milli) where parseFloat is involved, so that decimals of up
\* to three places and small exponents are exact.

DigitChars == {"0", "1", "2", "3", "4", "5", "6", "7", "8", "9"}

DigitValue(c) ==
    CASE c = "0" -> 0 [] c = "1" -> 1 [] c = "2" -> 2 [] c = "3" -> 3
      [] c = "4" -> 4 [] c = "5" -> 5 [] c = "6" -> 6 [] c = "7" -> 7
      [] c = "8" -> 8 [] OTHER -> 9

RECURSIVE Pow10(_)
Pow10(n) == IF n <= 0 THEN 1 ELSE 10 * Pow10(n - 1)

\* First index at or after i that holds no blank (Len + 1 if none).
RECURSIVE SkipBlanks(_, _)
SkipBlanks(text, i) ==
    IF i <= Len(text) /\ text[i] = " " THEN SkipBlanks(text, i + 1) ELSE i

\* First index at or after i that holds no digit.
RECURSIVE DigitsEnd(_, _)
DigitsEnd(text, i) ==
    IF i <= Len(text) /\ text[i] \in DigitChars THEN DigitsEnd(text, i + 1) ELSE i

\* The number written by the digits text[i .. j - 1].
RECURSIVE DigitsNumber(_, _, _)
DigitsNumber(text, i, j) ==
    IF j <= i THEN 0
    ELSE 10 * DigitsNumber(text, i, j - 1) + DigitValue(text[j - 1])

\* String.prototype.trim() === '' and trim() itself.
IsBlank(text) == \A i \in 1 .. Len(text) : text[i] = " "

RECURSIVE LastNonBlank(_, _)
LastNonBlank(text, j) ==
    IF j >= 1 /\ text[j] = " " THEN LastNonBlank(text, j - 1) ELSE j

trim(text) == SubSeq(text, SkipBlanks(text, 1), LastNonBlank(text, Len(text)))

SignAt(text, i) ==
    IF i <= Len(text) /\ text[i] \in {"+", "-"} THEN 1 ELSE 0

Negative(text, i) == i <= Len(text) /\ text[i] = "-"

\* parseInt(text, 10): leading blanks, an optional sign, then digits up to
\* the first character that is no digit; NaN when there is no digit.
parseInt(text) ==
    LET start == SkipBlanks(text, 1)
        first == start + SignAt(text, start)
        a     == DigitsEnd(text, first)
        whole == DigitsNumber(text, first, a)
    IN  IF a = first THEN [nan |-> TRUE, value |-> 0]
        ELSE [nan |-> FALSE, value |-> IF Negative(text, start) THEN -whole ELSE whole]

\* What parseFloat has read so far: the digits of the integer and fraction
\* parts as one number, how many of them there are, how many belong to the
\* fraction, and the exponent.
NothingRead ==
    [mantissa |-> 0, digits |-> 0, fracLen |-> 0, expNeg |-> FALSE, exponent |-> 0]

\* parseFloat's scan from index i: integer digits, an optional fraction, an
\* optional exponent (e or E, an optional sign, digits); it stops at the
\* first character that fits nowhere.
RECURSIVE ScanFloat(_, _, _, _)
ScanFloat(text, i, phase, st) ==
    LET c == IF i <= Len(text) THEN text[i] ELSE "" IN
    CASE phase = "int" /\ c \in DigitChars ->
           ScanFloat(text, i + 1, "int",
                     [st EXCEPT !.mantissa = 10 * @ + DigitValue(c), !.digits = @ + 1])
      [] phase = "int" /\ c = "." ->
           ScanFloat(text, i + 1, "frac", st)
      [] phase = "frac" /\ c \in DigitChars ->
           ScanFloat(text, i + 1, "frac",
                     [st EXCEPT !.mantissa = 10 * @ + DigitValue(c), !.digits = @ + 1,
                                !.fracLen = @ + 1])
      [] phase \in {"int", "frac"} /\ c \in {"e", "E"} ->
           ScanFloat(text, i + 1, "expSign", st)
      [] phase = "expSign" /\ c \in {"+", "-"} ->
           ScanFloat(text, i + 1, "exp", [st EXCEPT !.expNeg = (c = "-")])
      [] phase \in {"expSign", "exp"} /\ c \in DigitChars ->
           ScanFloat(text, i + 1, "exp", [st EXCEPT !.exponent = 10 * @ + DigitValue(c)])
      [] OTHER -> st

\* The number read, in thousandths; NaN when no digit was read.
FloatValue(negative, st) ==
    LET shift == 3 + (IF st.expNeg THEN -st.exponent ELSE st.exponent) - st.fracLen
        milli == IF shift >= 0 THEN st.mantissa * Pow10(shift)
                 ELSE st.mantissa \div Pow10(-shift)
    IN  IF st.digits = 0 THEN [nan |-> TRUE, milli |-> 0]
        ELSE [nan |-> FALSE, milli |-> IF negative THEN -milli ELSE milli]

\* parseFloat(text): leading blanks, an optional sign, then the scan.
parseFloat(text) ==
    FloatValue(Negative(text, SkipBlanks(text, 1)),
               ScanFloat(text, SkipBlanks(text, 1) + SignAt(text, SkipBlanks(text, 1)),
                         "int", NothingRead))

\* The texts each field is given.
FieldTexts(f) ==
    CASE f = "age" ->
           { <<>>, <<"5", "4">>, <<"7", "0">>, <<"1", "0", "9", ".", "9">>,
             <<"1", "1", "1">>, <<"1", "e", "2">> }
      [] f = "planning_horizon_years" ->
           { <<>>, <<"0">>, <<"3">>, <<"0", ".", "1", "e", "1">> }
      [] f = "target_rrif_depletion_age" ->
           { <<>>, <<"6", "0">>, <<"7", "5">>, <<"7", ".", "5", "e", "1">>,
             <<".", "7", "5", "e", "2">> }
      [] f = "expect_return_pct" -> { <<>>, <<"5">> }
      [] f = "inflation_rate_pct" -> { <<"2", ".", "0">>, <<"0", ".", "5">> }
      [] f = "spouse_details.age" -> { <<>>, <<"6", "0">> }
      [] f = "spouse_details.rrsp_balance" -> { <<>>, <<"1", "0", "0", "0">> }
      [] f = "non_registered_details.balance" -> { <<"0">>, <<"1", "0", "0">> }
      [] OTHER ->
           { <<>>, <<"O", "N">>, <<"o", "n">>, <<" ", "O", "N">> }

\* The MenuItems of the retirement_status Select.
SelectValues(f) == {"Retired", "Semi-Retired", "Working"}

\* name.split('.')[1] of a TextField of one of the two sections.
SubField(name) ==
    CASE name = "spouse_details.age" -> "age"
      [] name = "spouse_details.rrsp_balance" -> "rrsp_balance"
      [] OTHER -> "balance"

\* safeParseInt(value, isOptional): null (or 0 when not optional) for a
\* blank text or NaN, else parseInt(value, 10).
safeParseInt(value, isOptional) ==
    IF IsBlank(value) \/ parseInt(value).nan
    THEN [isNull |-> isOptional, value |-> 0]
    ELSE [isNull |-> FALSE, value |-> parseInt(value).value]

\* safeParseFloat(value, isOptional): the same with parseFloat; the value
\* is in thousandths.
safeParseFloat(value, isOptional) ==
    IF IsBlank(value) \/ parseFloat(value).nan
    THEN [isNull |-> isOptional, value |-> 0]
    ELSE [isNull |-> FALSE, value |-> parseFloat(value).milli]

\* x ?? d
NullishOr(x, d) == IF x.isNull THEN d ELSE x.value

\* validateNumeric: the message it stores for the field, "" for none.
\* min and max are whole numbers; the optional fields of the form all pass
\* allowEmptyForOptional = true.
validateNumeric(valueStr, isRequired, min, max) ==
    IF isRequired /\ IsBlank(valueStr) THEN "is required."
    ELSE IF ~IsBlank(valueStr)
    THEN LET valueNum == parseFloat(valueStr)
         IN  IF valueNum.nan THEN "must be a valid number."
             ELSE IF valueNum.milli > max * 1000 THEN "must be max or less."
             ELSE IF valueNum.milli < min * 1000 THEN "must be min or greater."
             ELSE ""
    ELSE ""

\* validateNumeric called without max (max === undefined).
validateNumericFrom(valueStr, isRequired, min) ==
    IF isRequired /\ IsBlank(valueStr) THEN "is required."
    ELSE IF ~IsBlank(valueStr)
    THEN LET valueNum == parseFloat(valueStr)
         IN  IF valueNum.nan THEN "must be a valid number."
             ELSE IF valueNum.milli < min * 1000 THEN "must be min or greater."
             ELSE ""
    ELSE ""

\* validateRequiredString for the value of a Select.
validateRequiredString(valueStr) ==
    IF valueStr = "" THEN "is required." ELSE ""

UpperCaseLetters ==
    {"A", "B", "C", "D", "E", "F", "G", "H", "I", "J", "K", "L", "M",
     "N", "O", "P", "Q", "R", "S", "T", "U", "V", "W", "X", "Y", "Z"}

\* /^[A-Z]{2}$/.test(text)
IsTwoUpperCaseLetters(text) ==
    /\ Len(text) = 2
    /\ text[1] \in UpperCaseLetters
    /\ text[2] \in UpperCaseLetters

\* if (formData.has_spouse && formData.spouse_details), and the same test
\* for the non-registered section.
SpouseSection(fd) == fd.has_spouse /\ fd.spouse_details # NoDetails

NonRegSection(fd) == fd.has_non_registered /\ fd.non_registered_details # NoDetails

\* The message validateForm stores under `key`, "" for none.
fieldError(fd, key) ==
    CASE key = "age" -> validateNumeric(fd.age, TRUE, FORM_MIN_AGE, FORM_MAX_AGE)
      [] key = "retirement_status" -> validateRequiredString(fd.retirement_status)
      [] key = "spouse_details.age" ->
           IF SpouseSection(fd)
           THEN validateNumeric(fd.spouse_details.age, TRUE, 0, 120) ELSE ""
      [] key = "spouse_details.rrsp_balance" ->
           IF SpouseSection(fd)
           THEN validateNumericFrom(fd.spouse_details.rrsp_balance, TRUE, 0) ELSE ""
      [] key = "non_registered_details.balance" ->
           IF NonRegSection(fd)
           THEN validateNumericFrom(fd.non_registered_details.balance, TRUE, 0) ELSE ""
      [] key = "planning_horizon_years" ->
           validateNumeric(fd.planning_horizon_years, TRUE, 1, FORM_MAX_HORIZON)
      [] key = "expect_return_pct" -> validateNumeric(fd.expect_return_pct, TRUE, -10, 25)
      [] key = "inflation_rate_pct" -> validateNumeric(fd.inflation_rate_pct, TRUE, 0, 10)
      [] key = "target_rrif_depletion_age" ->
           IF /\ fd.target_rrif_depletion_age # <<>>
              /\ fd.age # <<>>
              /\ ~parseFloat(fd.target_rrif_depletion_age).nan
              /\ ~parseFloat(fd.age).nan
              /\ parseFloat(fd.target_rrif_depletion_age).milli <= parseFloat(fd.age).milli
           THEN "> Current Age"
           ELSE validateNumeric(fd.target_rrif_depletion_age, FALSE, 56, 110)
      [] OTHER ->
           IF fd.province = <<>> \/ ~IsTwoUpperCaseLetters(trim(fd.province))
           THEN "2 letters" ELSE ""

\* validateForm: newErrors and the isValid flag (which is cleared exactly
\* where a message is stored).
validateForm(fd) ==
    [ newErrors |-> [key \in ErrorKeys |-> fieldError(fd, key)],
      isValid   |-> \A key \in ErrorKeys : fieldError(fd, key) = "" ]

\* scenarioData as handleSubmit builds it; rates and balances are in
\* thousandths.
buildScenario(fd) ==
    [ handed                    |-> TRUE,
      age                       |-> NullishOr(safeParseInt(fd.age, FALSE), 0),
      retirement_status         |-> fd.retirement_status,
      has_spouse                |-> fd.has_spouse,
      spouse_details            |->
          IF SpouseSection(fd)
          THEN [ age          |-> NullishOr(safeParseInt(fd.spouse_details.age, FALSE), 0),
                 rrsp_balance |-> NullishOr(safeParseFloat(fd.spouse_details.rrsp_balance, FALSE), 0) ]
          ELSE NoDetails,
      has_non_registered        |-> fd.has_non_registered,
      non_registered_details    |->
          IF NonRegSection(fd)
          THEN [ balance |-> NullishOr(safeParseFloat(fd.non_registered_details.balance, FALSE), 0) ]
          ELSE NoDetails,
      planning_horizon_years    |-> NullishOr(safeParseInt(fd.planning_horizon_years, FALSE), 0),
      expect_return_pct         |-> NullishOr(safeParseFloat(fd.expect_return_pct, FALSE), 0),
      inflation_rate_pct        |-> NullishOr(safeParseFloat(fd.inflation_rate_pct, FALSE), 0),
      target_rrif_depletion_age |-> safeParseInt(fd.target_rrif_depletion_age, TRUE),
      province                  |-> fd.province ]

\* handleSubmit that hands the scenario on whatever validateForm returned.
handleSubmit_noGate(fd) ==
    [ errors   |-> validateForm(fd).newErrors,
      handedOn |-> buildScenario(fd) ]

\* handleSubmit: setErrors(newErrors), and onSubmit(scenarioData) only if
\* validateForm() returned true.
handleSubmit(fd) ==
    [ errors   |-> validateForm(fd).newErrors,
      handedOn |-> IF validateForm(fd).isValid THEN buildScenario(fd) ELSE NoScenario ]

\* handleCheckboxChange that sets the flag and leaves the details as they are.
handleCheckboxChange_flagOnly(fd, name, checked) ==
    IF name = "has_spouse"
    THEN [fd EXCEPT !.has_spouse = checked]
    ELSE [fd EXCEPT !.has_non_registered = checked]

\* handleCheckboxChange: the flag and the details of the section are set
\* together; the error entries of the section's fields are deleted.
handleCheckboxChange(fd, name, checked) ==
    IF name = "has_spouse"
    THEN [fd EXCEPT !.has_spouse = checked,
                    !.spouse_details = IF checked THEN initialSpouseState ELSE NoDetails]
    ELSE [fd EXCEPT !.has_non_registered = checked,
                    !.non_registered_details =
                        IF checked THEN initialNonRegState ELSE NoDetails]

checkboxErrors(errs, name) ==
    [key \in ErrorKeys |->
        IF \/ name = "has_spouse" /\ key \in SpouseKeys
           \/ name = "has_non_registered" /\ key \in NonRegKeys
        THEN "" ELSE errs[key]]

\* handleTextFieldChange that opens a section when one of its fields is
\* edited while the details are null.
handleTextFieldChange_opensSection(fd, name, value) ==
    IF name \in SpouseKeys
    THEN [fd EXCEPT !.spouse_details =
             [(IF @ # NoDetails THEN @ ELSE initialSpouseState)
                 EXCEPT ![SubField(name)] = value]]
    ELSE IF name \in NonRegKeys
    THEN [fd EXCEPT !.non_registered_details =
             [(IF @ # NoDetails THEN @ ELSE initialNonRegState)
                 EXCEPT ![SubField(name)] = value]]
    ELSE [fd EXCEPT ![name] = value]

\* handleTextFieldChange: a field of a section is set inside the details,
\* which stay null when they are null; any other field is set at top level.
handleTextFieldChange(fd, name, value) ==
    IF name \in SpouseKeys
    THEN [fd EXCEPT !.spouse_details =
             IF @ # NoDetails THEN [@ EXCEPT ![SubField(name)] = value] ELSE NoDetails]
    ELSE IF name \in NonRegKeys
    THEN [fd EXCEPT !.non_registered_details =
             IF @ # NoDetails THEN [@ EXCEPT ![SubField(name)] = value] ELSE NoDetails]
    ELSE [fd EXCEPT ![name] = value]

\* handleSelectChange
handleSelectChange(fd, name, value) == [fd EXCEPT ![name] = value]

\* setErrors(prev => ({ ...prev, [errorKey]: undefined }))
clearError(errs, name) == [errs EXCEPT ![name] = ""]

InitForm ==
    /\ IdleMock
    /\ IdleCalc
    /\ IdleEngine
    /\ IdleApp
    /\ formData = initialFormData
    /\ errors = NoErrors
    /\ handedOn = NoScenario
    /\ lastEvent = "none"

\* handleTextFieldChange for a top-level field: the field takes the new
\* text and its entry of the error map is cleared.
HandleTextFieldChange ==
    /\ \E name \in FormFields : \E value \in FieldTexts(name) :
          /\ formData' = handleTextFieldChange(formData, name, value)
          /\ errors' = clearError(errors, name)
    /\ handedOn' = NoScenario
    /\ lastEvent' = "edit"
    /\ UNCHANGED <<mockVars, calcVars, engineVars, appVars>>

\* handleSubmit on the form's submit event.
HandleSubmit ==
    /\ errors' = handleSubmit(formData).errors
    /\ handedOn' = handleSubmit(formData).handedOn
    /\ lastEvent' = "submit"
    /\ UNCHANGED formData
    /\ UNCHANGED <<mockVars, calcVars, engineVars, appVars>>

NextForm ==
    \/ HandleTextFieldChange
    \/ HandleSubmit

SpecForm == InitForm /\ [][NextForm]_vars

\* The form with its top-level fields filled in, the sections untouched.
filledFormData ==
    [ initialFormData EXCEPT !.age = <<"7", "0">>,
                             !.planning_horizon_years = <<"3">>,
                             !.expect_return_pct = <<"5">> ]

InitFormSections ==
    /\ IdleMock
    /\ IdleCalc
    /\ IdleEngine
    /\ IdleApp
    /\ formData = filledFormData
    /\ errors = NoErrors
    /\ handedOn = NoScenario
    /\ lastEvent = "none"

\* handleCheckboxChange on one of the two checkboxes.
HandleCheckboxChange ==
    /\ \E name \in {"has_spouse", "has_non_registered"} : \E checked \in BOOLEAN :
          /\ formData' = handleCheckboxChange(formData, name, checked)
          /\ errors' = checkboxErrors(errors, name)
    /\ handedOn' = NoScenario
    /\ lastEvent' = "checkbox"
    /\ UNCHANGED <<mockVars, calcVars, engineVars, appVars>>

\* handleTextFieldChange for a TextField of one of the two sections; the
\* handler does not test whether the section is shown.
HandleSectionFieldChange ==
    /\ \E name \in SpouseKeys \cup NonRegKeys : \E value \in FieldTexts(name) :
          /\ formData' = handleTextFieldChange(formData, name, value)
          /\ errors' = clearError(errors, name)
    /\ handedOn' = NoScenario
    /\ lastEvent' = "editSection"
    /\ UNCHANGED <<mockVars, calcVars, engineVars, appVars>>

\* handleSelectChange on the Select.
HandleSelectChange ==
    /\ \E name \in SelectFields : \E value \in SelectValues(name) :
          /\ formData' = handleSelectChange(formData, name, value)
          /\ errors' = clearError(errors, name)
    /\ handedOn' = NoScenario
    /\ lastEvent' = "select"
    /\ UNCHANGED <<mockVars, calcVars, engineVars, appVars>>

NextFormSections ==
    \/ HandleCheckboxChange
    \/ HandleSectionFieldChange
    \/ HandleSelectChange
    \/ HandleSubmit

SpecFormSections == InitFormSections /\ [][NextFormSections]_vars

\* ------------------------------------------------- claims on the form

C19_AfterSubmit ==
    lastEvent = "submit" =>
      /\ (handedOn # NoScenario) <=> validateForm(formData).isValid
      /\ errors = validateForm(formData).newErrors
      /\ ~validateForm(formData).isValid =>
           /\ handedOn = NoScenario
           /\ \E f \in ErrorKeys : errors[f] # ""
      /\ validateForm(formData).isValid => errors = NoErrors

C19_SubmitStep ==
    lastEvent' = "submit" => formData' = formData

\* C19: validation gate. For every form state, a submission calls onSubmit
\* (and so starts a backend request) if and only if validateForm returns
\* true; when validation fails no scenario is handed on, the form data are
\* unchanged, and the error map is replaced by exactly the errors of the
\* fields that failed in this validation pass.
C19_ValidationGate ==
    /\ [](C19_AfterSubmit)
    /\ [][C19_SubmitStep]_vars

\* A submission refused for the age alone: the horizon is valid, and the
\* error map holds the one entry.
C19_Witness ==
    /\ lastEvent = "submit"
    /\ handedOn = NoScenario
    /\ formData.age = <<"5", "4">>
    /\ formData.planning_horizon_years = <<"3">>
    /\ errors = [NoErrors EXCEPT !["age"] = "must be min or greater."]

\* C20: every scenario the form hands to onSubmit has an integer age with
\* 55 <= age <= 110, for every text the age field can hold (decimal and
\* exponent notations included, which validation reads with parseFloat and
\* submission converts with parseInt).
C20_SubmittedAgeInRange ==
    handedOn # NoScenario =>
      /\ FORM_MIN_AGE <= handedOn.age
      /\ handedOn.age <= FORM_MAX_AGE

\* C21: every scenario the form hands to onSubmit has
\* 1 <= planning_horizon_years <= 50, for every text the horizon field can
\* hold; a horizon of 0 never leaves the form.
C21_SubmittedHorizonAtLeastOne ==
    handedOn # NoScenario =>
      /\ 1 <= handedOn.planning_horizon_years
      /\ handedOn.planning_horizon_years <= FORM_MAX_HORIZON

\* C22: once past the input boundary the expected return rate and the
\* inflation rate are decimals, not percentages: the scenario handed on by
\* the form carries one hundredth of the number the user entered (5 percent
\* is carried as 0.05).
C22_RatesAreDecimals ==
    handedOn # NoScenario =>
      /\ 100 * handedOn.expect_return_pct = parseFloat(formData.expect_return_pct).milli
      /\ 100 * handedOn.inflation_rate_pct = parseFloat(formData.inflation_rate_pct).milli

\* has_spouse and has_non_registered agree with the presence of the details.
SectionsExplicit(x) ==
    /\ x.has_spouse <=> (x.spouse_details # NoDetails)
    /\ x.has_non_registered <=> (x.non_registered_details # NoDetails)

\* C23: optional parts are explicitly present or absent in every form state
\* reachable by checkbox toggles, text edits and select changes: has_spouse
\* is true if and only if spouse_details is non-null, has_non_registered is
\* true if and only if non_registered_details is non-null; and the same
\* holds in every submitted scenario.
C23_OptionalPartsExplicit ==
    /\ SectionsExplicit(formData)
    /\ handedOn # NoScenario => SectionsExplicit(handedOn)

\* A scenario submitted with the spouse section filled in and the
\* non-registered section absent.
C23_Witness ==
    /\ lastEvent = "submit"
    /\ handedOn # NoScenario
    /\ handedOn.has_spouse
    /\ handedOn.spouse_details = [age |-> 60, rrsp_balance |-> 1000000]
    /\ ~handedOn.has_non_registered
    /\ handedOn.non_registered_details = NoDetails

\* C24: an optional numeric field left blank is submitted as null, never as
\* 0 or another number; and a non-blank optional field that passed
\* validation is never submitted as null (target depletion age; retirement
\* age and start year go through the same safeParseInt(value, true)).
C24_OptionalBlankIsNull ==
    handedOn # NoScenario =>
      /\ IsBlank(formData.target_rrif_depletion_age) =>
            handedOn.target_rrif_depletion_age.isNull
      /\ ~IsBlank(formData.target_rrif_depletion_age) =>
            ~handedOn.target_rrif_depletion_age.isNull

\* C28: whenever a submitted scenario carries a target RRIF depletion age,
\* the submitted value is strictly greater than the submitted current age
\* and lies in 56..110, for every pair of texts the two fields can hold.
C28_TargetAfterAge ==
    (handedOn # NoScenario /\ ~handedOn.target_rrif_depletion_age.isNull) =>
      /\ handedOn.target_rrif_depletion_age.value > handedOn.age
      /\ 56 <= handedOn.target_rrif_depletion_age.value
      /\ handedOn.target_rrif_depletion_age.value <= FORM_MAX_AGE

\* C29: the province code of every submitted scenario is exactly two
\* uppercase letters as submitted, with no surrounding whitespace, for
\* every text the province field can hold.
C29_ProvinceAsSubmitted ==
    handedOn # NoScenario => IsTwoUpperCaseLetters(handedOn.province)

\* From fd to fd2 nothing but the field `name` has changed, and details
\* that were null are null.
EditFrame(fd, fd2, name) ==
    /\ \A g \in (FormFields \cup SelectFields) \ {name} : fd2[g] = fd[g]
    /\ fd2.has_spouse = fd.has_spouse
    /\ fd2.has_non_registered = fd.has_non_registered
    /\ name \notin SpouseKeys => fd2.spouse_details = fd.spouse_details
    /\ name \notin NonRegKeys => fd2.non_registered_details = fd.non_registered_details
    /\ fd.spouse_details = NoDetails => fd2.spouse_details = NoDetails
    /\ fd.non_registered_details = NoDetails => fd2.non_registered_details = NoDetails
    /\ (name \in SpouseKeys /\ fd.spouse_details # NoDetails) =>
          /\ DOMAIN fd2.spouse_details = DOMAIN fd.spouse_details
          /\ \A k \in DOMAIN fd.spouse_details \ {SubField(name)} :
                fd2.spouse_details[k] = fd.spouse_details[k]
    /\ (name \in NonRegKeys /\ fd.non_registered_details # NoDetails) =>
          /\ DOMAIN fd2.non_registered_details = DOMAIN fd.non_registered_details
          /\ \A k \in DOMAIN fd.non_registered_details \ {SubField(name)} :
                fd2.non_registered_details[k] = fd.non_registered_details[k]

\* The handlers applied to the current form data, for every field and text.
C30_Frame ==
    /\ \A name \in FormFields \cup SpouseKeys \cup NonRegKeys :
         \A value \in FieldTexts(name) :
            /\ EditFrame(formData, handleTextFieldChange(formData, name, value), name)
            /\ \A g \in ErrorKeys \ {name} : clearError(errors, name)[g] = errors[g]
            /\ clearError(errors, name)[name] = ""
    /\ \A name \in SelectFields : \A value \in SelectValues(name) :
            /\ EditFrame(formData, handleSelectChange(formData, name, value), name)
            /\ handleSelectChange(formData, name, value)[name] = value

\* A text or select change as a step of the form.
C30_EditStep ==
    lastEvent' \in {"edit", "editSection", "select"} =>
      \E name \in ErrorKeys :
         /\ EditFrame(formData, formData', name)
         /\ \A g \in ErrorKeys \ {name} : errors'[g] = errors[g]
         /\ errors'[name] = ""

\* C30: editing one field changes only that field's value and clears only
\* that field's error: after a text or select change to field f every
\* other field of the form data and every other entry of the error map is
\* unchanged; and an edit to a spouse or non-registered field while that
\* section is absent (details null) leaves the details null.
C30_EditChangesOneField ==
    /\ [](C30_Frame)
    /\ [][C30_EditStep]_vars

\* After a refused submit with the spouse section open, the spouse's
\* balance has been typed: its error is gone, the error of the spouse's age
\* is still shown, and the non-registered section is still absent.
C30_Witness ==
    /\ lastEvent = "editSection"
    /\ formData.spouse_details = [age |-> <<>>, rrsp_balance |-> <<"1", "0", "0", "0">>]
    /\ errors["spouse_details.age"] = "is required."
    /\ errors["spouse_details.rrsp_balance"] = ""
    /\ formData.non_registered_details = NoDetails

\* ------------------------------------------------- claims on the App's submission

\* A step that sends a request.
C25_SubmitStep ==
    inFlight' > inFlight =>
      /\ isLoading'
      /\ error' = NoError
      /\ results' = NoResults
      /\ advice' = PendingAdvice

\* C25: loading lifecycle. Every submission sets isLoading to true and
\* clears both the previous error and the previous results before the
\* request is sent; provided the request promise settles, isLoading
\* eventually returns to false, whether the request succeeded or failed.
C25_LoadingLifecycle ==
    /\ [][C25_SubmitStep]_vars
    /\ (isLoading ~> ~isLoading)

\* A request that failed for want of a response, after which isLoading is
\* false again and the error is set.
C25_Witness ==
    /\ apc = "Idle"
    /\ httpOutcome.kind = "noResponse"
    /\ ~isLoading
    /\ error # NoError
    /\ results = NoResults

\* No step sends a request while isLoading is true, and the outcome of a
\* request is stored only when no other request is in flight.
C26_Step ==
    /\ isLoading => inFlight' <= inFlight
    /\ (results' # results \/ error' # error) => inFlight' \in {0, 1}
    /\ (apc = "Settled" /\ apc' = "Idle") => inFlight' = 0

\* C26: at most one advice request is in flight at any time: from the
\* moment a submission starts until its request settles the submit button
\* is disabled, so no sequence of user actions starts a second request
\* while isLoading is true, and a late response of an earlier request can
\* never overwrite the outcome of a later one.
C26_OneRequestInFlight ==
    /\ [](inFlight <= 1)
    /\ []((inFlight > 0 \/ apc # "Idle") => SubmitDisabled)
    /\ [][C26_Step]_vars

\* A request in flight: the spinner is shown and the submit button is
\* disabled.
C26_Witness ==
    /\ apc = "Requesting"
    /\ inFlight = 1
    /\ isLoading
    /\ SubmitDisabled

\* C27: exclusive outcome. In every state reached after a submission has
\* completed (isLoading false) exactly one of results and error is
\* non-null, so the user sees either the results dashboard or an error
\* alert, never both and never neither; and the dashboard is rendered only
\* when isLoading is false, error is null and results is non-null.
C27_ExclusiveOutcome ==
    /\ (~isLoading /\ httpOutcome # NoOutcome) =>
          /\ (results # NoResults) # (error # NoError)
          /\ AppView.dashboard.rendered # (AppView.alert # NoError)
          /\ AppView.dashboard.rendered <=> (results # NoResults)
    /\ AppView.dashboard.rendered =>
          /\ ~isLoading
          /\ error = NoError
          /\ results # NoResults

\* A completed submission that failed with HTTP 422: the alert is shown
\* and no dashboard.
C27_Witness ==
    /\ apc = "Idle"
    /\ httpOutcome.kind = "response"
    /\ httpOutcome.status = "422"
    /\ AppView.alert = error
    /\ error # NoError
    /\ results = NoResults
    /\ ~AppView.dashboard.rendered

====
